---------------------------- MODULE Spec2Model ----------------------------
(***************************************************************************)
(* Depth extraction of LilFloAssessmentPipeline: src/pose/src/extract_depth.py *)
(*                                                                         *)
(* The geometry kernel and the per-frame extractor are operators computed  *)
(* as numpy computes them, over exact rationals; the chunked driver        *)
(* add_stereo_depth is a state machine over the two HDF5 files.            *)
(*                                                                         *)
(* Floating-point values are pairs <<n, d>>: a reduced fraction n/d with   *)
(* d > 0, or <<0,0>> (not-a-number), <<1,0>> (+inf), <<-1,0>> (-inf).      *)
(* Arrays are 0-based functions; an image is img[row][col].                *)
(***************************************************************************)
EXTENDS Integers, Sequences, FiniteSets, TLC

\* ------------------------------------------------------------------ bounds
\* Largest number of colour frames of a sequence.
MaxFrames == 7
\* Number of body keypoints per frame (25 in the recorded data).
NumKeypoints == 2
\* Number of calls of add_stereo_depth in one behaviour.
MaxRuns == 3
\* Frames per chunk of the driver (5000 in the source, line 19; scaled so a
\* sequence within MaxFrames spans several chunks).
DATA_PROCESSING_CHUNK_SIZE == 3
\* The longest calibration table of the direct calls of get_extinsics.
MaxTableLen == 3
\* The most projected points of the direct calls of project_depth_to_colorframe.
MaxPoints == 2
\* The largest half-window of the direct calls of calc_depth_from_sparse_image.
MaxWindow == 1
\* The largest image side of the direct calls of generate_image_h_indices.
MaxSide == 3
\* The largest coordinate of the translations and points given to
\* build_tranformations directly.
MaxCoord == 1
\* Work items per pool task (chunksize=10 in the source, line 591; scaled so
\* a chunk spans several tasks).
POOL_CHUNKSIZE == 1

\* ------------------------------------------------------- program constants
\* common.realsense_params / common.tracking_params are imported (lines
\* 9-12); the model fixes small values for them.
MIN_VALID_DEPTH_METERS == 2
MAX_VALID_DEPTH_METERS == 4
MIN_VALID_DEPTH_MM == MIN_VALID_DEPTH_METERS * 1000
MAX_VALID_DEPTH_MM == MAX_VALID_DEPTH_METERS * 1000
MAX_TIME_DISPARITY == 1
DEPTH_KERNEL_SIZE == 3
\* hdf5_in[color_dset_name][5].shape
SHAPE_FRAME_IDX == 5

\* ----------------------------------------------------------------- helpers
\* The element of a singleton set.  { e(x) : x \in {v} } names the value v
\* once as x, so that e uses it without computing it again.
The(S) == CHOOSE x \in S : TRUE
\* The function f, tabulated.
Tab(f) == f @@ <<>>

Abs(x) == IF x < 0 THEN -x ELSE x
Sign(x) == IF x < 0 THEN -1 ELSE IF x > 0 THEN 1 ELSE 0
Min2(a, b) == IF a < b THEN a ELSE b
Max2(a, b) == IF a > b THEN a ELSE b
MaxOf(S) == CHOOSE p \in S : \A q \in S : q <= p
MinOf(S) == CHOOSE p \in S : \A q \in S : p <= q

\* ------------------------------------------------------------ float values
NaN == <<0, 0>>
PosInf == <<1, 0>>
NegInf == <<-1, 0>>

RECURSIVE GCD(_, _)
GCD(a, b) == IF b = 0 THEN a ELSE The({GCD(b, r) : r \in {a % b}})

\* The float n/d (d # 0) in reduced form.
Frac(n, d) ==
  The({<<(Sign(d) * n) \div g, Abs(d) \div g>> : g \in {GCD(Abs(n), Abs(d))}})

F(n) == <<n, 1>>
IsNaN(a) == a = NaN
IsFinite(a) == a[2] # 0

\* IEEE multiplication.
FMul(a, b) ==
  The({IF IsNaN(x) \/ IsNaN(y) THEN NaN
       ELSE IF IsFinite(x) /\ IsFinite(y) THEN Frac(x[1] * y[1], x[2] * y[2])
       ELSE <<Sign(x[1]) * Sign(y[1]), 0>> : x \in {a}, y \in {b}})

\* IEEE addition.
FAdd(a, b) ==
  The({IF IsNaN(x) \/ IsNaN(y) THEN NaN
       ELSE IF IsFinite(x) /\ IsFinite(y)
            THEN Frac(x[1] * y[2] + y[1] * x[2], x[2] * y[2])
       ELSE IF IsFinite(x) THEN y
       ELSE IF IsFinite(y) THEN x
       ELSE IF x = y THEN x ELSE NaN : x \in {a}, y \in {b}})

\* IEEE division (numpy warns on a zero divisor and returns inf or nan).
FDiv(a, b) ==
  The({IF IsNaN(x) \/ IsNaN(y) THEN NaN
       ELSE IF IsFinite(x) /\ IsFinite(y)
            THEN IF y[1] = 0 THEN <<Sign(x[1]), 0>>
                 ELSE Frac(x[1] * y[2], x[2] * y[1])
       ELSE IF IsFinite(x) THEN F(0)
       ELSE IF IsFinite(y) THEN <<x[1] * (IF y[1] < 0 THEN -1 ELSE 1), 0>>
       ELSE NaN : x \in {a}, y \in {b}})

\* a < b; every comparison with not-a-number is false.
FLt(a, b) ==
  The({IF IsNaN(x) \/ IsNaN(y) THEN FALSE
       ELSE IF IsFinite(x) /\ IsFinite(y) THEN x[1] * y[2] < y[1] * x[2]
       ELSE IF IsFinite(x) THEN y = PosInf
       ELSE IF IsFinite(y) THEN x = NegInf
       ELSE x = NegInf /\ y = PosInf : x \in {a}, y \in {b}})

FGt(a, b) == FLt(b, a)

\* np.round of the finite fraction n/d, d > 0: to nearest, ties to even.
RoundHalfEven(n, d) ==
  The({IF 2 * r < d THEN q
       ELSE IF 2 * r > d THEN q + 1
       ELSE IF q % 2 = 0 THEN q ELSE q + 1 : q \in {n \div d}, r \in {n % d}})

\* .astype('uint16') of an integral value.  A value outside 0..65535 has no
\* defined conversion; builds wrap it modulo 2^16 or saturate it, and both
\* results fail the bounds tests that follow in the callers at these image
\* sizes, so the wrapped value stands for either.
AsUint16(v) == v % 65536

\* ----------------------------------------------------------------- matrices
\* A matrix is a tuple of rows, a vector a tuple.
Dot3(a, b) == a[1] * b[1] + a[2] * b[2] + a[3] * b[3]
Dot4(a, b) == a[1] * b[1] + a[2] * b[2] + a[3] * b[3] + a[4] * b[4]
MatVec3(m, v) == <<Dot3(m[1], v), Dot3(m[2], v), Dot3(m[3], v)>>
MatVec34(m, v) == <<Dot4(m[1], v), Dot4(m[2], v), Dot4(m[3], v)>>
Transpose3(m) ==
  <<<<m[1][1], m[2][1], m[3][1]>>, <<m[1][2], m[2][2], m[3][2]>>,
    <<m[1][3], m[2][3], m[3][3]>>>>
Col4(m, j) == <<m[1][j], m[2][j], m[3][j], m[4][j]>>
Eye3 == <<<<1, 0, 0>>, <<0, 1, 0>>, <<0, 0, 1>>>>

Det3(m) ==
    m[1][1] * (m[2][2] * m[3][3] - m[2][3] * m[3][2])
  - m[1][2] * (m[2][1] * m[3][3] - m[2][3] * m[3][1])
  + m[1][3] * (m[2][1] * m[3][2] - m[2][2] * m[3][1])

\* Index i+1 modulo 3 in 1..3.
Nx(i) == (i % 3) + 1
\* Entry (i, j) of the adjugate of m.
Adj3(m, i, j) ==
    m[Nx(j)][Nx(i)] * m[Nx(Nx(j))][Nx(Nx(i))]
  - m[Nx(j)][Nx(Nx(i))] * m[Nx(Nx(j))][Nx(i)]
\* np.linalg.inv of an integer matrix of determinant +1 or -1 (the matrices
\* of the model): adjugate times determinant, exact.
Inv3(m) ==
  The({<<<<d * Adj3(m, 1, 1), d * Adj3(m, 1, 2), d * Adj3(m, 1, 3)>>,
         <<d * Adj3(m, 2, 1), d * Adj3(m, 2, 2), d * Adj3(m, 2, 3)>>,
         <<d * Adj3(m, 3, 1), d * Adj3(m, 3, 2), d * Adj3(m, 3, 3)>>>> :
       d \in {Det3(m)}})

\* ---------------------------------------------------------- geometry kernel
ImgH(img) == Cardinality(DOMAIN img)
ImgW(img) == Cardinality(DOMAIN img[0])
ImgShape(img) == <<ImgH(img), ImgW(img)>>
ConstImg(h, w, v) == Tab([r \in 0..(h - 1) |-> Tab([c \in 0..(w - 1) |-> v])])

\* np.indices(dims) for two dimensions: grid a holds, at [i][j], the index
\* along dimension a.
NpIndices(dims) ==
  [a \in 0..1 |-> [i \in 0..(dims[1] - 1) |-> [j \in 0..(dims[2] - 1) |->
     IF a = 0 THEN i ELSE j]]]

\* Line 30 without np.flip.
NpNoFlip(shape) == shape

\* np.flip(shape) of a two-element shape.
NpFlip(shape) == <<shape[2], shape[1]>>

\* np.reshape(grid, -1) of a dims[1] x dims[2] grid, in C order: the last
\* index changes fastest.
ReshapeC(grid, dims) ==
  [p \in 0..(dims[1] * dims[2] - 1) |-> grid[p \div dims[2]][p % dims[2]]]

\* Lines 30-32: np.reshape(np.indices(np.flip(shape)), (2, -1)) with a row of
\* ones appended; column p is (first grid, second grid, 1) at position p.
generate_image_h_indices(depth_img_shape) ==
  The({The({Tab([p \in DOMAIN xs |-> <<xs[p], ys[p], 1>>]) :
            xs \in {Tab(ReshapeC(NpIndices(dims)[0], dims))},
            ys \in {Tab(ReshapeC(NpIndices(dims)[1], dims))}}) :
       dims \in {NpFlip(depth_img_shape)}})

\* np.reshape(img, (1, -1), order='F'): element p is img[p mod H, p div H].
ReshapeF(img) ==
  The({Tab([p \in 0..(h * ImgW(img) - 1) |-> img[p % h][p \div h]]) :
       h \in {ImgH(img)}})

\* (k_inv @ points) * flattened image.
de_project_depth(points, k_inv, img) ==
  The({Tab([p \in DOMAIN points |->
              The({<<ray[1] * flat[p], ray[2] * flat[p], ray[3] * flat[p]>> :
                   ray \in {MatVec3(k_inv, points[p])}})]) :
       flat \in {ReshapeF(img)}})

transform_depth_world2color_pixels(color_cam_matrix, world_d) ==
  Tab([p \in DOMAIN world_d |->
         MatVec34(color_cam_matrix,
                  <<world_d[p][1], world_d[p][2], world_d[p][3], 1>>)])

\* Rounded pixel of a ray with z # 0, cast to uint16.
RoundedPixel(ray) ==
  The({<<AsUint16(RoundHalfEven(fx[1], fx[2])),
         AsUint16(RoundHalfEven(fy[1], fy[2]))>> :
       fx \in {Frac(ray[1], ray[3])}, fy \in {Frac(ray[2], ray[3])}})

\* The test of lines 82-84 on a rounded pixel.
PixelValid(pt, h, w) == pt[1] > 0 /\ pt[2] > 0 /\ pt[1] < w /\ pt[2] < h

\* Lines 85-87 for rays that all have z # 0: the image of zeros with
\* px_color[2, p] written at every valid rounded pixel; a repeated pixel
\* keeps the last value written.
MappedImage(px_color, points, h, w) ==
  Tab([r \in 0..(h - 1) |-> Tab([c \in 0..(w - 1) |->
    The({IF hits = {} THEN F(0) ELSE F(px_color[MaxOf(hits)][3]) :
         hits \in {{p \in DOMAIN points :
                      points[p] = <<c, r>> /\ PixelValid(points[p], h, w)}}})])])

\* Lines 76-87.  `points` and `valid` have one entry per ray with z # 0, and
\* `valid` then indexes all of px_color[2, :]: numpy raises IndexError when
\* the two lengths differ, that is when some ray has z = 0.
project_depth_to_colorframe(px_color, color_img_shape) ==
  IF \E p \in DOMAIN px_color : px_color[p][3] = 0
  THEN [err |-> TRUE, img |-> <<>>]
  ELSE The({[err |-> FALSE,
             img |-> MappedImage(px_color, points, color_img_shape[1],
                                 color_img_shape[2])] :
            points \in {Tab([p \in DOMAIN px_color |->
                               RoundedPixel(px_color[p])])}})

\* The flattened slice img[r0:r1, c0:c1], row-major.
FlatSlice(img, r0, r1, c0, c1) ==
  IF r0 >= r1 \/ c0 >= c1 THEN <<>>
  ELSE [i \in 1..((r1 - r0) * (c1 - c0)) |->
          img[r0 + ((i - 1) \div (c1 - c0))][c0 + ((i - 1) % (c1 - c0))]]

\* Python's min over a sequence of floats: keeps the first element unless a
\* later one compares smaller (a comparison with not-a-number is false).
RECURSIVE PyMinFrom(_, _, _)
PyMinFrom(s, i, m) ==
  IF i > Len(s) THEN m
  ELSE The({PyMinFrom(s, i + 1, m2) :
            m2 \in {IF FLt(s[i], m) THEN s[i] ELSE m}})

PyMin(s) == The({PyMinFrom(s, 2, first) : first \in {s[1]}})

\* Lines 110-115 for one pose: rows max(0, y-window) .. min(y+window, H) - 1
\* and columns max(x-window, 0) .. min(x+window, W) - 1 (the slice ends are
\* exclusive).  pose[1]-window is an integer that may be negative (numpy 1.x
\* scalar arithmetic with a Python int).
DepthWindow(mapped_depth_img, pose, window) ==
  The({Tab(FlatSlice(mapped_depth_img,
                     Max2(0, py - window),
                     Min2(py + window, ImgH(mapped_depth_img)),
                     Max2(px - window, 0),
                     Min2(px + window, ImgW(mapped_depth_img)))) :
       px \in {AsUint16(RoundHalfEven(pose[1], 1))},
       py \in {AsUint16(RoundHalfEven(pose[2], 1))}})

\* Lines 116-121 for one window.
DepthOfWindow(vals) ==
  The({IF Len(nz) > 0 THEN PyMin(nz) ELSE F(0) :
       nz \in {SelectSeq(vals, LAMBDA v : v # F(0))}})

calc_depth_from_sparse_image(mapped_depth_img, poses, window) ==
  Tab([k \in DOMAIN poses |->
         DepthOfWindow(DepthWindow(mapped_depth_img, poses[k], window))])

\* (k_inv @ [x, y, 1]) * depth, one column per pose.
deproject_colordepth(k_inv, poses, depths) ==
  Tab([k \in DOMAIN poses |->
         The({<<FMul(F(ray[1]), depths[k]), FMul(F(ray[2]), depths[k]),
                FMul(F(ray[3]), depths[k])>> :
              ray \in {MatVec3(k_inv, <<poses[k][1], poses[k][2], 1>>)}})])

\* Dot products of an integer row with a float vector.
FDot3(row, v) ==
  FAdd(FAdd(FMul(F(row[1]), v[1]), FMul(F(row[2]), v[2])),
       FMul(F(row[3]), v[3]))

FDot4(row, v) == FAdd(FDot3(row, v), FMul(F(row[4]), v[4]))

\* Lines 151-155: k_d @ (h_matrix_inv @ [P; 1])[:3], divided by its z.
project_keypoints2depth(k_d, h_matrix_inv, poses_3d_c) ==
  Tab([k \in DOMAIN poses_3d_c |->
    The({The({The({<<FDiv(px[1], px[3]), FDiv(px[2], px[3])>> :
                   px \in {<<FDot3(k_d[1], pd), FDot3(k_d[2], pd),
                             FDot3(k_d[3], pd)>>}}) :
              pd \in {<<FDot4(h_matrix_inv[1], ph), FDot4(h_matrix_inv[2], ph),
                        FDot4(h_matrix_inv[3], ph)>>}}) :
         ph \in {<<poses_3d_c[k][1], poses_3d_c[k][2], poses_3d_c[k][3],
                   F(1)>>}})])

\* ------------------------------------------------------- transform builder
\* Lines 283-285: [[r_cd^T, t_cd], [0, 0, 0, 1]].
HMatrix(r_cd, t_cd) ==
  The({<<rt[1] \o <<t_cd[1]>>, rt[2] \o <<t_cd[2]>>, rt[3] \o <<t_cd[3]>>,
         <<0, 0, 0, 1>>>> : rt \in {Transpose3(r_cd)}})

\* Lines 290-292 with -t_cd in place of line 292's product.
HMatrixInvPlainTranslation(r_cd, t_cd) ==
  The({<<rinv[1] \o <<-t_cd[1]>>, rinv[2] \o <<-t_cd[2]>>,
         rinv[3] \o <<-t_cd[3]>>, <<0, 0, 0, 1>>>> :
       rinv \in {Inv3(Transpose3(r_cd))}})

\* Lines 290-292: [[inv(r_cd^T), -inv(r_cd^T) @ t_cd], [0, 0, 0, 1]].
HMatrixInv(r_cd, t_cd) ==
  The({The({<<rinv[1] \o <<-tinv[1]>>, rinv[2] \o <<-tinv[2]>>,
              rinv[3] \o <<-tinv[3]>>, <<0, 0, 0, 1>>>> :
            tinv \in {MatVec3(rinv, t_cd)}}) :
       rinv \in {Inv3(Transpose3(r_cd))}})

\* Lines 283-304.
build_tranformations(r_cd, t_cd, k_d, k_c) ==
  The({[h_matrix |-> h_matrix, k_c_padded |-> k_c_padded,
        color_cam_matrix |->
          Tab([i \in 1..3 |-> Tab([j \in 1..4 |->
                 Dot4(k_c_padded[i], Col4(h_matrix, j))])]),
        k_d_inv |-> Inv3(k_d), k_c_inv |-> Inv3(k_c),
        h_matrix_inv |-> HMatrixInv(r_cd, t_cd), k_d |-> k_d, k_c |-> k_c] :
       h_matrix \in {HMatrix(r_cd, t_cd)},
       k_c_padded \in {Tab([i \in 1..3 |-> k_c[i] \o <<0>>])}})

\* ------------------------------------------------------ per-frame extractor
\* Python's None and a present value.
None == [some |-> FALSE, v |-> <<>>]
Some(x) == [some |-> TRUE, v |-> x]

\* The names of the geometry functions a call went through.
GeomFresh == {"generate_image_h_indices", "de_project_depth",
              "transform_depth_world2color_pixels",
              "project_depth_to_colorframe"}
GeomSample == {"calc_depth_from_sparse_image", "deproject_colordepth",
               "project_keypoints2depth"}

\* Line 192 is inside the branch of line 190: the window passed on to
\* calc_depth_from_sparse_image is halved only when the map is computed here.
SamplingWindow(window, mapped_depth_img) ==
  IF ~mapped_depth_img.some THEN (window - 1) \div 2 ELSE window

\* Lines 190-196: the map passed in, or the one computed from depth_img
\* (None has no attribute shape: line 191 raises).
MappedDepth(depth_img, color_img_shape, transform_mats, mapped_depth_img) ==
  IF mapped_depth_img.some THEN [err |-> FALSE, img |-> mapped_depth_img.v]
  ELSE IF ~depth_img.some THEN [err |-> TRUE, img |-> <<>>]
  ELSE
   The({The({The({project_depth_to_colorframe(px_color, color_img_shape) :
                  px_color \in {transform_depth_world2color_pixels(
                                  transform_mats.color_cam_matrix, world_d)}}) :
             world_d \in {de_project_depth(indices_h, transform_mats.k_d_inv,
                                           depth_img.v)}}) :
        indices_h \in {generate_image_h_indices(ImgShape(depth_img.v))}})

\* Lines 199-203 on the map proj.
SampleDepth(poses, transform_mats, w, proj, geom) ==
  The({The({[err |-> FALSE, depths |-> depths, poses_3d_c |-> poses_3d_c,
             poses_in_depth |->
               project_keypoints2depth(transform_mats.k_d,
                                       transform_mats.h_matrix_inv, poses_3d_c),
             mapped_depth_img |-> proj.img, geom |-> geom] :
            poses_3d_c \in {deproject_colordepth(transform_mats.k_c_inv, poses,
                                                 depths)}}) :
       depths \in {calc_depth_from_sparse_image(proj.img, poses, w)}})

\* Lines 190-203.  depth_img and mapped_depth_img are None or Some(image).
\* `depths` is the local of line 199; `geom` the functions called.
extract_depth(poses, depth_img, color_img_shape, transform_mats, window, mapped_depth_img) ==
  The({IF proj.err
       THEN [err |-> TRUE, depths |-> <<>>, poses_3d_c |-> <<>>,
             poses_in_depth |-> <<>>, mapped_depth_img |-> <<>>,
             geom |-> IF depth_img.some THEN GeomFresh ELSE {}]
       ELSE SampleDepth(poses, transform_mats,
                        SamplingWindow(window, mapped_depth_img), proj,
                        IF mapped_depth_img.some THEN GeomSample
                        ELSE GeomFresh \cup GeomSample) :
       proj \in {MappedDepth(depth_img, color_img_shape, transform_mats,
                             mapped_depth_img)}})

\* Line 255 alone on one pixel value: the upper limit is not applied.
ClampDepthBelowOnly(d) == IF d < MIN_VALID_DEPTH_MM THEN 0 ELSE d

\* Lines 255-256 on one pixel value.
ClampDepth(d) ==
  IF d < MIN_VALID_DEPTH_MM \/ d > MAX_VALID_DEPTH_MM THEN 0 ELSE d

ClampImg(img) ==
  Tab([r \in DOMAIN img |-> Tab([c \in DOMAIN img[r] |-> ClampDepth(img[r][c])])])

\* Lines 260-263 without the lower limit of line 261.
InvalidDepthAboveOnly(z) == FGt(z, F(MAX_VALID_DEPTH_MM))

\* Lines 260-263 on the recovered z of one keypoint.
InvalidDepth(z) ==
  FLt(z, F(MIN_VALID_DEPTH_MM)) \/ FGt(z, F(MAX_VALID_DEPTH_MM))

\* Returned arrays: a shape and the rows; the scalar np.NaN has shape <<>>.
ScalarNaN == [shape |-> <<>>, data |-> <<>>]
Arr(rows, width) == [shape |-> <<Len(rows), width>>, data |-> rows]
\* The dense map element of the returned tuple: None, np.NaN or an image.
MapNone == [kind |-> "none", img |-> <<>>]
MapNaN == [kind |-> "nan", img |-> <<>>]
MapImg(img) == [kind |-> "img", img |-> img]

\* Line 247 with >= in place of >: the threshold itself is rejected too.
StaleAtThreshold(depth_time, color_time) ==
  Abs(depth_time - color_time) >= MAX_TIME_DISPARITY

\* Line 247.
Stale(depth_time, color_time) ==
  Abs(depth_time - color_time) > MAX_TIME_DISPARITY

\* Lines 260-271 on the result r of extract_depth.
MaskInvalid(r, depth_img, clamped, idx) ==
  The({[raised |-> FALSE, idx |-> idx,
        poses_3d |-> Arr(Tab([k \in DOMAIN r.poses_3d_c |->
                       IF k \in bad THEN <<NaN, NaN, NaN>>
                       ELSE r.poses_3d_c[k]]), 3),
        poses_depth |-> Arr(Tab([k \in DOMAIN r.poses_in_depth |->
                          IF k \in bad THEN <<NaN, NaN>>
                          ELSE r.poses_in_depth[k]]), 2),
        depth_in_color |-> IF depth_img.some THEN MapImg(r.mapped_depth_img)
                           ELSE MapNone,
        geom |-> r.geom, depths |-> r.depths, clamped |-> clamped] :
       bad \in {{k \in DOMAIN r.poses_3d_c :
                   InvalidDepth(r.poses_3d_c[k][3])}}})

\* Lines 247-271.  `clamped` is depth_img after lines 254-256 (the caller's
\* array is modified in place), `raised` an exception escaping the call.
extract_depth_wrap(color_img_shape, transform_mats, depth_img, keypoints, depth_time, color_time, depth_in_color, idx) ==
  IF Stale(depth_time, color_time)
  THEN [raised |-> FALSE, idx |-> idx, poses_3d |-> ScalarNaN,
        poses_depth |-> ScalarNaN, depth_in_color |-> MapNaN,
        geom |-> {}, depths |-> <<>>, clamped |-> depth_img]
  ELSE
   The({The({IF r.err
             THEN [raised |-> TRUE, idx |-> idx, poses_3d |-> ScalarNaN,
                   poses_depth |-> ScalarNaN, depth_in_color |-> MapNone,
                   geom |-> r.geom, depths |-> <<>>, clamped |-> clamped]
             ELSE MaskInvalid(r, depth_img, clamped, idx) :
             r \in {extract_depth(keypoints, clamped, color_img_shape,
                                  transform_mats, DEPTH_KERNEL_SIZE,
                                  depth_in_color)}}) :
        clamped \in {IF depth_img.some THEN Some(ClampImg(depth_img.v))
                     ELSE None}})

\* Lines 211-214.
extract_depth_wrap_multiprocess(color_img_shape, transform_mats, zipped_args) ==
  extract_depth_wrap(color_img_shape, transform_mats, zipped_args[1],
                     zipped_args[2], zipped_args[3], zipped_args[4],
                     zipped_args[5], zipped_args[6])

\* -------------------------------------------------------------------- state
VARIABLES
  fc,         \* one per-frame call: its arguments and what it returned
  hdf5_in,    \* the input file's read-only datasets and attributes
  depth_map,  \* the dense depth-in-color dataset (created in hdf5_in)
  kp3d,       \* hdf5_out: <pose_dset_root>/3d-realsense-raw
  kpdepth,    \* hdf5_out: <pose_dset_root>/depth
  run,        \* the call of add_stereo_depth in progress
  hist,       \* what the runs so far did
  xcall       \* one direct call of a helper function: its arguments and return

vars == <<fc, hdf5_in, depth_map, kp3d, kpdepth, run, hist, xcall>>

\* Image shapes (rows, columns) of the model's depth and colour frames.
DepthShape == <<2, 3>>
ColorShape == <<3, 4>>
\* Intrinsics of both cameras.
K_D == Eye3
K_C == Eye3

\* ------------------------------------------- specification of one frame call
\* Raw depth values: 0 (no return), below, inside and above the valid range.
DepthValues == {1000 * m : m \in 0..(MAX_VALID_DEPTH_METERS + 1)}
\* Depth images: one value everywhere but at one pixel.
FrameImages ==
  {[r \in 0..(DepthShape[1] - 1) |-> [c \in 0..(DepthShape[2] - 1) |->
      IF <<r, c>> = q THEN sv ELSE bv]] :
     q \in {<<0, 0>>, <<1, 1>>, <<1, 2>>}, sv \in DepthValues,
     bv \in {0, MIN_VALID_DEPTH_MM, MAX_VALID_DEPTH_MM}}
\* The first keypoint varies; the others are fixed pixels of row 1.
FrameKeypoints ==
  {[k \in 1..NumKeypoints |-> IF k = 1 THEN kp ELSE <<k - 1, 1>>] :
     kp \in {<<1, 1>>, <<2, 1>>, <<3, 1>>, <<3, 2>>, <<0, 0>>, <<-1, 1>>}}
\* (depth_time, color_time): equal, at the threshold, beyond it either way.
FrameTimes ==
  {<<10, 10>>, <<10 + MAX_TIME_DISPARITY, 10>>,
   <<11 + MAX_TIME_DISPARITY, 10>>, <<10, 11 + MAX_TIME_DISPARITY>>}
\* Translations depth -> colour, in millimetres.
FrameTranslations == {<<0, 0, 0>>, <<MIN_VALID_DEPTH_MM, 0, 0>>, <<0, 0, 1000>>}

NoReturn ==
  [raised |-> FALSE, idx |-> -1, poses_3d |-> ScalarNaN,
   poses_depth |-> ScalarNaN, depth_in_color |-> MapNone, geom |-> {},
   depths |-> <<>>, clamped |-> None]

NoCall ==
  [phase |-> "off", depth_img |-> <<>>, keypoints |-> <<>>, depth_time |-> 0,
   color_time |-> 0, t_cd |-> <<0, 0, 0>>, fresh |-> NoReturn,
   cached |-> NoReturn]

\* The dataset slot depth_in_color_dset[idx, :, :] after result[3] is
\* assigned to it: np.NaN fills the slot.
DenseSlot(m) ==
  IF m.kind = "img" THEN m.img
  ELSE ConstImg(ColorShape[1], ColorShape[2], NaN)

FrameTransforms == build_tranformations(Eye3, fc.t_cd, K_D, K_C)

\* extract_depth_wrap on a raw depth image (no cached map).
FrameFresh ==
  /\ fc.phase = "args"
  /\ \E tm \in {FrameTransforms}, img \in {Some(fc.depth_img)} :
       \E result \in {extract_depth_wrap(ColorShape, tm, img, fc.keypoints,
                        fc.depth_time, fc.color_time, None, 0)} :
         fc' = [fc EXCEPT !.phase = "fresh", !.fresh = result]
  /\ UNCHANGED <<hdf5_in, depth_map, kp3d, kpdepth, run, hist, xcall>>

\* extract_depth_wrap on the same frame with the map of the first call, as
\* stored in its dataset slot, passed as the cache and no depth image.
FrameCached ==
  /\ fc.phase = "fresh"
  /\ ~fc.fresh.raised
  /\ \E tm \in {FrameTransforms},
        map \in {Some(DenseSlot(fc.fresh.depth_in_color))} :
       \E result \in {extract_depth_wrap(ColorShape, tm, None, fc.keypoints,
                        fc.depth_time, fc.color_time, map, 0)} :
         fc' = [fc EXCEPT !.phase = "cached", !.cached = result]
  /\ UNCHANGED <<hdf5_in, depth_map, kp3d, kpdepth, run, hist, xcall>>

DriverOff == <<>>

InitFrame ==
  /\ \E img \in FrameImages, kps \in FrameKeypoints, tm \in FrameTimes,
        t \in FrameTranslations :
       fc = [NoCall EXCEPT !.phase = "args", !.depth_img = img,
               !.keypoints = kps, !.depth_time = tm[1], !.color_time = tm[2],
               !.t_cd = t]
  /\ hdf5_in = DriverOff
  /\ depth_map = DriverOff
  /\ kp3d = DriverOff
  /\ kpdepth = DriverOff
  /\ run = DriverOff
  /\ hist = DriverOff
  /\ xcall = DriverOff

NextFrame == FrameFresh \/ FrameCached

SpecFrame == InitFrame /\ [][NextFrame]_vars

\* ------------------------------------------------------ the recorded files
\* hdf5_in describes one recording:
\*   n        len(hdf5_in[color_dset_name]), also the length of the colour
\*            time, depth, depth time and 2D keypoint datasets
\*   matched  the matched_depth_index dataset: "absent", "empty" or "full"
\*            (one entry per colour frame)
\*   attrs    the colour dataset has the depth_to_color-* attributes
\*   special, kind   at most one frame is "stale" (its matched depth frame is
\*            older than the allowed disparity) or has a "hole" (a depth
\*            pixel without return, value 0); kind "none" otherwise
NumFrames == hdf5_in.n
FrameIdx == 0..(NumFrames - 1)

\* hdf5_in[color_time_dset_name][i]
ColorTime(i) == 10 * i
\* hdf5_in[depth_match_dset_name][i]
MatchedIndex(i) == i
\* len(hdf5_in[depth_match_dset_name])
MatchedLen == IF hdf5_in.matched = "full" THEN NumFrames ELSE 0
\* hdf5_in[depth_time_dset_name][j]: within the threshold, on it for even j.
DepthTime(j) ==
  10 * j + (IF hdf5_in.special = j /\ hdf5_in.kind = "stale"
            THEN MAX_TIME_DISPARITY + 1
            ELSE IF j % 2 = 0 THEN MAX_TIME_DISPARITY ELSE 0)
\* hdf5_in[depth_dset_name][j]: valid depths that differ from frame to frame.
DepthData(j) ==
  Tab([r \in 0..(DepthShape[1] - 1) |-> Tab([c \in 0..(DepthShape[2] - 1) |->
     IF hdf5_in.special = j /\ hdf5_in.kind = "hole" /\ <<r, c>> = <<1, 1>>
     THEN 0
     ELSE 1000 * (MIN_VALID_DEPTH_METERS + (j % 3))])])
\* hdf5_out[keypoints_dset_name][i][:, :2]
KeypointsColor(i) ==
  Tab([k \in 1..NumKeypoints |->
         IF k = 1 THEN <<1 + (i % 2), 1>> ELSE <<k - 1, 1>>])

\* The attributes of the colour dataset that line 413 looks for.
ExtrinsicAttrs == {"depth_to_color-rotation", "depth_to_color-translation"}
\* The depth_to_color attributes (metres) when the colour dataset has them.
AttrRotation == Eye3
AttrTranslation == <<0, 0, 0>>
\* The transforms table of (source, cam), in file order: the keys are
\* timestamps written as strings (here their decimal digits).
CalibrationTable ==
  <<[key |-> <<0>>, rotation |-> Eye3, translation |-> <<0, 0, 1>>],
    [key |-> <<1, 0, 0, 0>>, rotation |-> Eye3, translation |-> <<1, 0, 1>>]>>
\* The values the transforms argument of add_stereo_depth takes.
TransformsArgs == {None, Some(CalibrationTable)}

\* float(v) of a key string of decimal digits (line 423).
RECURSIVE PyFloat(_)
PyFloat(v) ==
  IF v = <<>> THEN 0
  ELSE 10 * PyFloat(SubSeq(v, 1, Len(v) - 1)) + v[Len(v)]

\* np.abs(times - time_target) of line 422, doubled (target = num/2).
KeyDistances(table, num) ==
  Tab([i \in 1..Len(table) |-> Abs(2 * PyFloat(table[i].key) - num)])

\* np.argmin with the last of equal minima.
ArgMinLast(a) ==
  CHOOSE i \in DOMAIN a :
    /\ \A j \in DOMAIN a : a[i] <= a[j]
    /\ \A j \in DOMAIN a : j > i => a[j] > a[i]

\* np.argmin: the first minimum.
ArgMin(a) ==
  CHOOSE i \in DOMAIN a :
    /\ \A j \in DOMAIN a : a[i] <= a[j]
    /\ \A j \in DOMAIN a : j < i => a[j] > a[i]

\* Lines 421-423: the position of the nearest key.
NearestEntry(table, num) ==
  The({ArgMin(d) : d \in {KeyDistances(table, num)}})

\* Lines 419-426: the table entry nearest to time[0] + (time[-1] - time[0])/2
\* (target2 is twice that time).
BestTransform(h5, table) ==
  The({table[NearestEntry(table, target2)] :
       target2 \in {2 * ColorTime(0) + (ColorTime(h5.n - 1) - ColorTime(0))}})

\* Lines 413-429.  Without both attributes, indexing an empty time
\* dataset raises, and so do transforms.keys() on None and np.argmin of no key.
get_extinsics(h5, transforms) ==
  IF ExtrinsicAttrs \subseteq h5.attrs
  THEN [raised |-> FALSE, r_cd |-> AttrRotation,
        t_cd |-> Tab([i \in 1..3 |-> AttrTranslation[i] * 1000])]
  ELSE IF h5.n = 0 \/ ~transforms.some \/ transforms.v = <<>>
  THEN [raised |-> TRUE, r_cd |-> Eye3, t_cd |-> <<0, 0, 0>>]
  ELSE The({[raised |-> FALSE, r_cd |-> best.rotation,
             t_cd |-> Tab([i \in 1..3 |-> best.translation[i] * 1000])] :
            best \in {BestTransform(h5, transforms.v)}})

\* Lines 477-478.
get_intrinsics == [k_c |-> K_C, k_d |-> K_D]

\* Lines 444-451, for a slice [start, stop, step] with stop defined:
\* ceil((stop - start) / step), at least 0.
max_slice_len(slc) ==
  Max2(0, (slc[2] - slc[1] + slc[3] - 1) \div slc[3])

\* Lines 465-466.
slice_len(slc, src_len) == max_slice_len(<<slc[1], Min2(slc[2], src_len), slc[3]>>)

\* ------------------------------------------------------------ the datasets
\* The datasets are float32; the values of the model are stored exactly.
ZeroRows(width) == Tab([k \in 1..NumKeypoints |-> Tab([j \in 1..width |-> F(0)])])
NaNRows(width) == Tab([k \in 1..NumKeypoints |-> Tab([j \in 1..width |-> NaN])])
ZeroMap == ConstImg(ColorShape[1], ColorShape[2], F(0))
NaNMap == ConstImg(ColorShape[1], ColorShape[2], NaN)
Absent == [exists |-> FALSE, complete |-> "unset", data |-> <<>>]
\* A dataset with every frame's slot set to v.
Filled(v) == Tab([i \in FrameIdx |-> v])

\* Lines 320-334 without the test of line 320: created at every call.
generate_keypoints_3d_dset_anew(dset) ==
  [exists |-> TRUE, complete |-> "unset", data |-> Filled(ZeroRows(3))]

\* Lines 320-334: created with shape (frames, keypoints, 3) when absent.
generate_keypoints_3d_dset(dset) ==
  IF ~dset.exists
  THEN [exists |-> TRUE, complete |-> "unset", data |-> Filled(ZeroRows(3))]
  ELSE dset

\* Lines 351-363 with the last dimension of line 322.
generate_keypoints_depth_dset_3wide(dset) ==
  IF ~dset.exists
  THEN [exists |-> TRUE, complete |-> "unset", data |-> Filled(ZeroRows(3))]
  ELSE dset

\* Lines 351-363.
generate_keypoints_depth_dset(dset) ==
  IF ~dset.exists
  THEN [exists |-> TRUE, complete |-> "unset", data |-> Filled(ZeroRows(2))]
  ELSE dset

\* Lines 380-397 without the test of line 390: 'complete' is never trusted.
generate_depth_in_color_dset_untrusting(dset) ==
  IF ~dset.exists
  THEN [dset |-> [exists |-> TRUE, complete |-> "false",
                  data |-> Filled(ZeroMap)],
        already_exists |-> FALSE]
  ELSE [dset |-> [dset EXCEPT !.complete = "false"], already_exists |-> FALSE]

\* Lines 380-397: the dataset and already_exists.
generate_depth_in_color_dset(dset) ==
  IF ~dset.exists
  THEN [dset |-> [exists |-> TRUE, complete |-> "false",
                  data |-> Filled(ZeroMap)],
        already_exists |-> FALSE]
  ELSE IF dset.complete = "true"
  THEN [dset |-> dset, already_exists |-> TRUE]
  ELSE [dset |-> [dset EXCEPT !.complete = "false"], already_exists |-> FALSE]

\* dset[idx, :, :] = value, value an array or the scalar np.NaN.
SlotOf(value, width) ==
  IF value.shape = <<>> THEN NaNRows(width) ELSE value.data

\* ------------------------------------------------- add_stereo_depth, a run
\* run: the call in progress.  pc is "idle" between calls, "chunk" at the
\* head of the loop of line 548, "seq" in the loop of line 579 and "pool" in
\* the loop of line 590.  filled is depth_color_filled, tm the transforms
\* bound at line 567, items the chunk's zipped_args, next the position of
\* map() in them, pending the pool tasks not finished, outq the results the
\* pool's iterator holds, pbar the progress bar's count.
Idle ==
  [pc |-> "idle", count |-> 0, rerun |-> FALSE, filled |-> FALSE, start |-> 0,
   t_cd |-> <<0, 0, 0>>, r_cd |-> Eye3, tm |-> <<>>, items |-> <<>>,
   next |-> 1, pending |-> {}, outq |-> <<>>, pbar |-> 0]

\* hist: what the current (or last) run did, and what it started from.
\* reordered: some result reached the driver out of frame order; raised_in:
\* the call whose exception ended the run.
NoHistory ==
  [outcome |-> "none", raised_in |-> "", start_complete |-> FALSE, cached_run |-> FALSE,
   prev_cached_run |-> FALSE, reordered |-> FALSE, calib_read |-> FALSE, pools |-> 0, extracted |-> {}, rasterized |-> {},
   writes_3d |-> Filled(0), writes_depth |-> Filled(0),
   writes_map |-> Filled(0), filled_all |-> FALSE, ever_written |-> {},
   at_start_3d |-> <<>>, at_start_depth |-> <<>>, at_start_map |-> <<>>]

\* The run ends: control returns to the caller, normally or by an exception.
EndOfRun(how) ==
  /\ run' = [run EXCEPT !.pc = "idle", !.tm = <<>>, !.items = <<>>,
               !.next = 1, !.pending = {}, !.outq = <<>>]
  /\ hist' = [hist EXCEPT !.outcome = how]

\* The run ends by an exception that `where` raised.
Raise(where) ==
  /\ run' = [run EXCEPT !.pc = "idle", !.tm = <<>>, !.items = <<>>,
               !.next = 1, !.pending = {}, !.outq = <<>>]
  /\ hist' = [hist EXCEPT !.outcome = "raised", !.raised_in = where]

\* What the call returned, without the bookkeeping fields.
Returned(r) ==
  [raised |-> r.raised, idx |-> r.idx, poses_3d |-> r.poses_3d,
   poses_depth |-> r.poses_depth, depth_in_color |-> r.depth_in_color]

\* The history a run starts with.
StartOfRun(depth_color_filled) ==
  [NoHistory EXCEPT
     !.outcome = "running",
     !.start_complete = (depth_map.exists /\ depth_map.complete = "true"),
     !.cached_run = depth_color_filled,
     !.prev_cached_run = (hist.cached_run /\ hist.outcome = "returned"),
     !.ever_written = hist.ever_written \cup
        {i \in FrameIdx : hist.writes_3d[i] > 0 /\ hist.writes_depth[i] > 0},
     !.at_start_3d = kp3d.data, !.at_start_depth = kpdepth.data,
     !.at_start_map = depth_map.data]

\* Line 535 without its length test.
NoDepthDataAbsentOnly == hdf5_in.matched = "absent"

\* Line 535: the matched-depth-index dataset is absent or empty.
NoDepthData == hdf5_in.matched = "absent" \/ MatchedLen = 0

\* Lines 524-545: the datasets, rerun, the early exit and the calibration.
AddStereoDepthCall(rerun, transforms) ==
  /\ run.pc = "idle"
  /\ run.count < MaxRuns
  /\ \E g \in {generate_depth_in_color_dset(depth_map)},
        ext \in {get_extinsics(hdf5_in, transforms)} :
      \E depth_color_filled \in {IF rerun THEN FALSE ELSE g.already_exists} :
       \E h \in {StartOfRun(depth_color_filled)},
          r \in {[run EXCEPT !.count = @ + 1, !.rerun = rerun,
                    !.filled = depth_color_filled, !.pbar = 0]} :
        IF NoDepthData
        THEN /\ kp3d' = [generate_keypoints_3d_dset(kp3d) EXCEPT
                           !.data = Filled(NaNRows(3))]
             /\ kpdepth' = [generate_keypoints_depth_dset(kpdepth) EXCEPT
                              !.data = Filled(NaNRows(2))]
             /\ depth_map' = [g.dset EXCEPT !.complete = "true",
                                !.data = Filled(NaNMap)]
             /\ run' = r
             /\ hist' = [h EXCEPT !.outcome = "returned", !.filled_all = TRUE]
        ELSE /\ kp3d' = generate_keypoints_3d_dset(kp3d)
             /\ kpdepth' = generate_keypoints_depth_dset(kpdepth)
             /\ depth_map' = g.dset
             /\ IF ext.raised
                THEN /\ run' = r
                     /\ hist' = [h EXCEPT !.outcome = "raised",
                                          !.raised_in = "get_extinsics",
                                          !.calib_read = TRUE]
                ELSE /\ run' = [r EXCEPT !.pc = "chunk", !.start = 0,
                                  !.t_cd = ext.t_cd, !.r_cd = ext.r_cd]
                     /\ hist' = [h EXCEPT !.calib_read = TRUE]
  /\ UNCHANGED <<fc, hdf5_in, xcall>>

\* Lines 553-573 with the depth image loaded whatever depth_color_filled is.
WorkItemAlwaysLoadsDepth(idx) ==
  <<Some(DepthData(MatchedIndex(idx))),
    KeypointsColor(idx),
    DepthTime(MatchedIndex(idx)),
    ColorTime(idx),
    IF run.filled THEN Some(depth_map.data[idx]) ELSE None,
    idx>>

\* Lines 553-573 with the depth time left out of a cached item (the colour
\* time in its place): the cached path without a disparity to test.
WorkItemCachedWithoutDisparity(idx) ==
  <<IF run.filled THEN None ELSE Some(DepthData(MatchedIndex(idx))),
    KeypointsColor(idx),
    IF run.filled THEN ColorTime(idx) ELSE DepthTime(MatchedIndex(idx)),
    ColorTime(idx),
    IF run.filled THEN Some(depth_map.data[idx]) ELSE None,
    idx>>

\* The work item of frame idx (lines 553-573): the depth image or the cached
\* map, never both.
WorkItem(idx) ==
  <<IF run.filled THEN None ELSE Some(DepthData(MatchedIndex(idx))),
    KeypointsColor(idx),
    DepthTime(MatchedIndex(idx)),
    ColorTime(idx),
    IF run.filled THEN Some(depth_map.data[idx]) ELSE None,
    idx>>

\* The number of tasks imap_unordered cuts num_frames items into.
NumTasks(num_frames) == (num_frames + POOL_CHUNKSIZE - 1) \div POOL_CHUNKSIZE

\* Lines 575-587 with the pool created whatever depth_color_filled is.
ChunkLoopAlwaysPool == "pool"

\* Lines 575-587: the loop that handles the chunk, sequential when the
\* cached maps are used and a pool otherwise.
ChunkLoop == IF run.filled THEN "seq" ELSE "pool"

\* Lines 549-573 and 587: one chunk's work items; hdf5_in[color][5] raises
\* IndexError for a recording of five frames or fewer.
LoadChunk ==
  /\ run.pc = "chunk"
  /\ run.start < NumFrames
  /\ IF NumFrames <= SHAPE_FRAME_IDX
     THEN Raise("hdf5_in[color_dset_name][5]")
     ELSE \E num_frames \in
             {slice_len(<<run.start,
                          Min2(NumFrames, run.start + DATA_PROCESSING_CHUNK_SIZE),
                          1>>, NumFrames)} :
          /\ run' = [run EXCEPT
                       !.pc = ChunkLoop,
                       !.tm = build_tranformations(run.r_cd, run.t_cd,
                                get_intrinsics.k_d, get_intrinsics.k_c),
                       !.items = Tab([f \in 1..num_frames |->
                                        WorkItem(run.start + f - 1)]),
                       !.next = 1,
                       !.pending = IF ChunkLoop = "pool"
                                   THEN 1..NumTasks(num_frames) ELSE {},
                       !.outq = <<>>]
          /\ hist' = [hist EXCEPT
                        !.pools = IF ChunkLoop = "pool" THEN @ + 1 ELSE @]
  /\ UNCHANGED <<fc, hdf5_in, depth_map, kp3d, kpdepth, xcall>>

\* Lines 564-567: functools.partial(extract_depth_wrap_multiprocess, shape,
\* transforms).
bound_func(zipped_args) ==
  extract_depth_wrap_multiprocess(ColorShape, run.tm, zipped_args)

\* The slot of a result taken by its position of arrival, not by result[0].
ResultSlotByArrival(result) == run.pbar

\* The slot a result is written to: result[0] (lines 580 and 592).
ResultSlot(result) == result.idx

\* The extraction of one item, as the driver sees it.
Extracted(zipped_args) ==
  The({[result |-> Returned(r), geom |-> r.geom] :
       r \in {bound_func(zipped_args)}})

\* hist after the items of `idxs` went through the extractor.
NoteExtracted(h, idxs, rasterized) ==
  [h EXCEPT !.extracted = @ \cup idxs, !.rasterized = @ \cup rasterized]

\* The dense map if the loop of line 579 assigned result[3] as line 595 does.
SeqMapWriteAsPool(result, idx) ==
  [depth_map EXCEPT !.data[idx] = DenseSlot(result.depth_in_color)]

\* The dense map after the loop of line 579 handled a result: lines 580-584
\* do not assign result[3].
SeqMapWrite(result, idx) == depth_map

\* Lines 579-584: the next frame of the chunk, extracted in the driver.
SeqStep ==
  /\ run.pc = "seq"
  /\ run.next <= Len(run.items)
  /\ \E e \in {Extracted(run.items[run.next])} :
      \E idx \in {ResultSlot(e.result)},
         h \in {NoteExtracted(hist, {run.items[run.next][6]},
                  IF "project_depth_to_colorframe" \in e.geom
                  THEN {run.items[run.next][6]} ELSE {})} :
        IF e.result.raised
        THEN /\ run' = [run EXCEPT !.pc = "idle", !.tm = <<>>,
                          !.items = <<>>, !.next = 1]
             /\ hist' = [h EXCEPT !.outcome = "raised",
                                  !.raised_in = "bound_func"]
             /\ UNCHANGED <<kp3d, kpdepth, depth_map>>
        ELSE /\ kp3d' = [kp3d EXCEPT
                           !.data[idx] = SlotOf(e.result.poses_3d, 3)]
             /\ depth_map' = SeqMapWrite(e.result, idx)
             /\ kpdepth' = [kpdepth EXCEPT
                              !.data[idx] = SlotOf(e.result.poses_depth, 2)]
             /\ run' = [run EXCEPT !.next = @ + 1, !.pbar = @ + 1]
             /\ hist' = [h EXCEPT !.writes_3d[idx] = @ + 1,
                                  !.writes_depth[idx] = @ + 1]
  /\ UNCHANGED <<fc, hdf5_in, xcall>>

\* The items of pool task t: POOL_CHUNKSIZE consecutive work items.
TaskItems(t) ==
  SubSeq(run.items, (t - 1) * POOL_CHUNKSIZE + 1,
         Min2(t * POOL_CHUNKSIZE, Len(run.items)))

\* The extractions of a task's items, up to the first that raises.
TaskResults(items) ==
  The({The({Tab([j \in 1..upto |-> all[j]]) :
            upto \in {IF \E j \in DOMAIN all : all[j].result.raised
                      THEN MinOf({j \in DOMAIN all : all[j].result.raised})
                      ELSE Len(items)}}) :
       all \in {Tab([j \in 1..Len(items) |-> Extracted(items[j])])}})

\* The 3D-keypoint dataset if extract_depth_wrap assigned its results
\* itself (the assignments commented out at lines 266-267).
WorkerKeypointWriteDirect(rs) ==
  [kp3d EXCEPT !.data[rs[1].result.idx] = SlotOf(rs[1].result.poses_3d, 3)]

\* The 3D-keypoint dataset after a worker ran a task: extract_depth_wrap
\* returns its results (line 271) and assigns to no dataset.
WorkerKeypointWrite(rs) == kp3d

\* A pool worker finishes task t (imap_unordered, line 590): its results, or
\* the exception of one of its items in their place, reach the driver in
\* the order tasks finish.
WorkerFinishesTask(t) ==
  /\ run.pc = "pool"
  /\ t \in run.pending
  /\ \E rs \in {TaskResults(TaskItems(t))} :
       /\ run' = [run EXCEPT
                    !.pending = @ \ {t},
                    !.outq = @ \o (IF rs[Len(rs)].result.raised
                                   THEN <<rs[Len(rs)].result>>
                                   ELSE [j \in 1..Len(rs) |-> rs[j].result])]
       /\ hist' = NoteExtracted(hist,
                    {rs[j].result.idx : j \in 1..Len(rs)},
                    {rs[j].result.idx : j \in {j \in 1..Len(rs) :
                       "project_depth_to_colorframe" \in rs[j].geom}})
       /\ kp3d' = WorkerKeypointWrite(rs)
  /\ UNCHANGED <<fc, hdf5_in, depth_map, kpdepth, xcall>>

\* The iterator of line 590 if it skipped over a worker's exception.
WorkerExceptionSkipped(result) == FALSE

\* The iterator of line 590 raises, in the driver, the exception of the
\* worker whose result it reaches.
WorkerException(result) == result.raised

\* Lines 590-596: the driver takes the next result off the pool's iterator
\* and writes it, or the worker's exception is raised in the driver.
DriverTakesResult ==
  /\ run.pc = "pool"
  /\ run.outq # <<>>
  /\ \E result \in {Head(run.outq)} :
      \E idx \in {ResultSlot(result)} :
        IF WorkerException(result)
        THEN /\ Raise("imap_unordered")
             /\ UNCHANGED <<kp3d, kpdepth, depth_map>>
        ELSE /\ kp3d' = [kp3d EXCEPT !.data[idx] = SlotOf(result.poses_3d, 3)]
             /\ kpdepth' = [kpdepth EXCEPT
                              !.data[idx] = SlotOf(result.poses_depth, 2)]
             /\ depth_map' = [depth_map EXCEPT
                                !.data[idx] = DenseSlot(result.depth_in_color)]
             /\ run' = [run EXCEPT !.outq = Tail(@), !.pbar = @ + 1]
             /\ hist' = [hist EXCEPT !.writes_3d[idx] = @ + 1,
                                     !.writes_depth[idx] = @ + 1,
                                     !.writes_map[idx] = @ + 1,
                                     !.reordered = @ \/ idx # run.pbar]
  /\ UNCHANGED <<fc, hdf5_in, xcall>>

\* The loop of line 548 stepping by one less than the chunk size.
EndChunkOverlapping ==
  /\ \/ run.pc = "seq" /\ run.next > Len(run.items)
     \/ run.pc = "pool" /\ run.pending = {} /\ run.outq = <<>>
  /\ run' = [run EXCEPT !.pc = "chunk", !.tm = <<>>, !.items = <<>>,
               !.next = 1, !.start = @ + DATA_PROCESSING_CHUNK_SIZE - 1]
  /\ UNCHANGED <<fc, hdf5_in, depth_map, kp3d, kpdepth, hist, xcall>>

\* The chunk's loop is exhausted (and its pool closed): the next chunk.
EndChunk ==
  /\ \/ run.pc = "seq" /\ run.next > Len(run.items)
     \/ run.pc = "pool" /\ run.pending = {} /\ run.outq = <<>>
  /\ run' = [run EXCEPT !.pc = "chunk", !.tm = <<>>, !.items = <<>>,
               !.next = 1, !.start = @ + DATA_PROCESSING_CHUNK_SIZE]
  /\ UNCHANGED <<fc, hdf5_in, depth_map, kp3d, kpdepth, hist, xcall>>

\* Line 597 inside the loop of line 548: reached after the first chunk.
LoopExhaustedAfterAChunk == run.start > 0 \/ run.start >= NumFrames

\* The loop of line 548 has gone through every chunk.
LoopExhausted == run.start >= NumFrames

\* Line 597, after the last chunk.
MarkComplete ==
  /\ run.pc = "chunk"
  /\ LoopExhausted
  /\ depth_map' = [depth_map EXCEPT !.complete = "true"]
  /\ EndOfRun("returned")
  /\ UNCHANGED <<fc, hdf5_in, kp3d, kpdepth, xcall>>

\* A recording as the upstream conversion leaves it: no output of
\* add_stereo_depth yet.
Init ==
  /\ fc = NoCall
  /\ \E n \in 0..MaxFrames, m \in {"absent", "empty", "full"},
        a \in {{}, ExtrinsicAttrs}, sp \in -1..(MaxFrames - 1),
        kd \in {"none", "stale", "hole"} :
       /\ sp < n
       /\ (sp = -1) <=> (kd = "none")
       /\ hdf5_in = [n |-> n, matched |-> m, attrs |-> a, special |-> sp,
                     kind |-> kd]
  /\ depth_map = Absent
  /\ kp3d = Absent
  /\ kpdepth = Absent
  /\ run = Idle
  /\ hist = NoHistory
  /\ xcall = DriverOff

Next ==
  \/ \E rerun \in BOOLEAN, transforms \in TransformsArgs :
       AddStereoDepthCall(rerun, transforms)
  \/ LoadChunk
  \/ SeqStep
  \/ \E t \in 1..MaxFrames : WorkerFinishesTask(t)
  \/ DriverTakesResult
  \/ EndChunk
  \/ MarkComplete

Spec == Init /\ [][Next]_vars

\* ------------------------------------------- properties of one frame call
\* The calls of extract_depth_wrap made so far under SpecFrame.
FrameCalls ==
  IF fc.phase = "fresh" THEN {fc.fresh}
  ELSE IF fc.phase = "cached" THEN {fc.fresh, fc.cached}
  ELSE {}

\* |depth_timestamp - color_timestamp| of the frame.
FrameDisparity == Abs(fc.depth_time - fc.color_time)

\* C1: a frame whose depth and colour timestamps differ by strictly more
\* than MAX_TIME_DISPARITY comes back as not-a-number in both outputs with
\* no geometry function invoked, and a frame whose disparity is at most the
\* threshold (equal included) goes through the geometry functions.
C1_StaleFrameFastPath ==
  \A r \in FrameCalls :
    IF FrameDisparity > MAX_TIME_DISPARITY
    THEN /\ ~r.raised
         /\ SlotOf(r.poses_3d, 3) = NaNRows(3)
         /\ SlotOf(r.poses_depth, 2) = NaNRows(2)
         /\ r.geom = {}
    ELSE r.geom # {}

C1_Witness ==
  /\ fc.phase = "cached"
  /\ FrameDisparity > MAX_TIME_DISPARITY
  /\ fc.fresh.geom = {}
  /\ fc.cached.geom = {}

\* C2: for the same frame, the depth sampled around every keypoint is the
\* same whether extract_depth computes the map from the raw depth image or
\* is handed that map as the precomputed cache.
C2_CachedSamplesAsFresh ==
  (fc.phase = "cached" /\ FrameDisparity <= MAX_TIME_DISPARITY
     /\ ~fc.cached.raised)
    => fc.cached.depths = fc.fresh.depths

\* A raw depth value outside [MIN_VALID_DEPTH_MM, MAX_VALID_DEPTH_MM].
RawOutOfRange(d) == d < MIN_VALID_DEPTH_MM \/ d > MAX_VALID_DEPTH_MM

\* The depth image handed to the geometry has 0 at the out-of-range pixels
\* of the raw image and the raw value elsewhere.
ClampedBeforeGeometry(r) ==
  \A y \in DOMAIN fc.depth_img : \A x \in DOMAIN fc.depth_img[y] :
    r.clamped.v[y][x] =
      IF RawOutOfRange(fc.depth_img[y][x]) THEN 0 ELSE fc.depth_img[y][x]

\* Every value of the computed map comes from an in-range raw pixel (the
\* rotation is the identity: z in the colour frame is depth + t_cd[3]).
MapFromValidDepths(r) ==
  \A y \in DOMAIN r.depth_in_color.img :
    \A x \in DOMAIN r.depth_in_color.img[y] :
      \/ r.depth_in_color.img[y][x] = F(0)
      \/ \E b \in DOMAIN fc.depth_img : \E a \in DOMAIN fc.depth_img[b] :
           /\ ~RawOutOfRange(fc.depth_img[b][a])
           /\ r.depth_in_color.img[y][x] = F(fc.depth_img[b][a] + fc.t_cd[3])

\* Keypoint k's recovered z (the sampled depth: the rays of K_C have z = 1)
\* is outside [MIN_VALID_DEPTH_MM, MAX_VALID_DEPTH_MM].
RecoveredOutOfRange(r, k) ==
  \/ FLt(r.depths[k], F(MIN_VALID_DEPTH_MM))
  \/ FLt(F(MAX_VALID_DEPTH_MM), r.depths[k])

\* C3: every raw depth value below the minimum or above the maximum is 0
\* in the image the geometry is computed from, and a keypoint whose
\* recovered z is below the minimum or above the maximum is not-a-number in
\* all three 3D coordinates and both depth-frame coordinates, while a
\* keypoint with z in range is not-a-number in neither output.
C3_ClampAndInvalidate ==
  \A r \in FrameCalls :
    (FrameDisparity <= MAX_TIME_DISPARITY) =>
      /\ r.clamped.some => ClampedBeforeGeometry(r)
      /\ (~r.raised /\ r.clamped.some) => MapFromValidDepths(r)
      /\ ~r.raised =>
           \A k \in 1..NumKeypoints :
             IF RecoveredOutOfRange(r, k)
             THEN /\ r.poses_3d.data[k] = <<NaN, NaN, NaN>>
                  /\ r.poses_depth.data[k] = <<NaN, NaN>>
             ELSE /\ r.poses_3d.data[k][3] = r.depths[k]
                  /\ \A j \in 1..2 : ~IsNaN(r.poses_depth.data[k][j])

C3_Witness ==
  /\ fc.phase = "fresh"
  /\ FrameDisparity <= MAX_TIME_DISPARITY
  /\ ~fc.fresh.raised
  /\ \E y \in DOMAIN fc.depth_img : \E x \in DOMAIN fc.depth_img[y] :
       fc.depth_img[y][x] > MAX_VALID_DEPTH_MM /\ fc.fresh.clamped.v[y][x] = 0
  /\ \E k \in 1..NumKeypoints :
       /\ RecoveredOutOfRange(fc.fresh, k)
       /\ fc.fresh.poses_3d.data[k] = <<NaN, NaN, NaN>>
       /\ fc.fresh.poses_depth.data[k] = <<NaN, NaN>>
  /\ \E k \in 1..NumKeypoints : ~RecoveredOutOfRange(fc.fresh, k)

\* C7: every call of extract_depth_wrap returns normally, and what it
\* returns fills the frame's fixed-shape slots (keypoints x 3 and
\* keypoints x 2).
C7_ExtractionNeverRaises ==
  \A r \in FrameCalls :
    /\ ~r.raised
    /\ DOMAIN SlotOf(r.poses_3d, 3) = 1..NumKeypoints
    /\ DOMAIN SlotOf(r.poses_depth, 2) = 1..NumKeypoints

\* ---------------------------------------- properties of add_stereo_depth
\* A run has been started (hist describes it).
RunStarted == hist.outcome # "none"

\* C4: when an exception has escaped a run of add_stereo_depth, the dense
\* map's 'complete' attribute is false.
C4_FailedRunLeavesIncomplete ==
  hist.outcome = "raised" => depth_map.complete = "false"

\* The pool's chunk has been processed: every task finished and every
\* result was taken by the driver.
PoolChunkDone ==
  /\ run.pc = "pool"
  /\ run.pending = {}
  /\ run.outq = <<>>
  /\ run.items # <<>>

\* C5: after a chunk processed by the pool, in whatever order its tasks
\* finished, the slots of every frame of the chunk in the three datasets
\* hold what the extractor returns for that frame's own work item, as
\* in-order processing stores it.
C5_ResultsInOwnSlots ==
  PoolChunkDone =>
    \A f \in 1..Len(run.items) :
      \E e \in {Extracted(run.items[f])}, idx \in {run.items[f][6]} :
        /\ kp3d.data[idx] = SlotOf(e.result.poses_3d, 3)
        /\ kpdepth.data[idx] = SlotOf(e.result.poses_depth, 2)
        /\ depth_map.data[idx] = DenseSlot(e.result.depth_in_color)

C5_Witness ==
  /\ PoolChunkDone
  /\ hist.reordered
  /\ \E f \in 1..Len(run.items) : kp3d.data[run.items[f][6]] # NaNRows(3)

C8_EarlyExit ==
  (RunStarted /\ (hdf5_in.matched \in {"absent", "empty"} \/ NumFrames = 0)) =>
    /\ hist.outcome = "returned"
    /\ run.pc = "idle"
    /\ kp3d.data = Filled(NaNRows(3))
    /\ kpdepth.data = Filled(NaNRows(2))
    /\ depth_map.complete = "true"
    /\ ~hist.calib_read
    /\ hist.pools = 0
    /\ hist.extracted = {}

C8_Witness ==
  /\ hist.outcome = "returned"
  /\ hdf5_in.matched = "empty"
  /\ NumFrames > SHAPE_FRAME_IDX
  /\ kp3d.data = Filled(NaNRows(3))

\* C9: when two runs in succession with rerun=False both started from a
\* complete dense map and returned, the keypoint datasets after the second
\* are those after the first.
C9_CachedRunsIdempotent ==
  (hist.outcome = "returned" /\ hist.cached_run /\ hist.prev_cached_run) =>
    /\ kp3d.data = hist.at_start_3d
    /\ kpdepth.data = hist.at_start_depth

C9_Witness ==
  /\ hist.outcome = "returned"
  /\ hist.cached_run
  /\ hist.prev_cached_run
  /\ hist.extracted = FrameIdx
  /\ \E i \in FrameIdx : kp3d.data[i] # NaNRows(3)

\* C10: a run with rerun=False does not write the keypoint slots of a frame
\* that an earlier run has written.
C10_WriteOnce ==
  (RunStarted /\ ~run.rerun) =>
    \A i \in hist.ever_written :
      hist.writes_3d[i] = 0 /\ hist.writes_depth[i] = 0

\* Exactly one of the depth image and the cached map of a work item is
\* not None.
ExactlyOneImage(item) == item[1].some # item[5].some

\* The work item's frame is rejected at line 247.
ItemStale(item) == Abs(item[3] - item[4]) > MAX_TIME_DISPARITY

\* C11 as stated: every work item of the chunk has exactly one of the two
\* images, and the dense-map element of what extract_depth_wrap returns for
\* it is the map when the call rasterized one and None in every other case.
C11_MapReturnedOrNone ==
  \A f \in 1..Len(run.items) :
    /\ ExactlyOneImage(run.items[f])
    /\ \E e \in {Extracted(run.items[f])} :
         ~e.result.raised =>
           e.result.depth_in_color.kind =
             (IF "project_depth_to_colorframe" \in e.geom THEN "img"
              ELSE "none")

\* C11, amended: every work item of the chunk has exactly one of the two
\* images, and the dense-map element returned for it is the map when the
\* call rasterized one, np.NaN when the frame is rejected as stale, and
\* None in every other case.
C11_MapReturnedNaNOrNone ==
  \A f \in 1..Len(run.items) :
    /\ ExactlyOneImage(run.items[f])
    /\ \E e \in {Extracted(run.items[f])} :
         ~e.result.raised =>
           e.result.depth_in_color.kind =
             (IF "project_depth_to_colorframe" \in e.geom THEN "img"
              ELSE IF ItemStale(run.items[f]) THEN "nan"
              ELSE "none")

C11_Witness ==
  /\ run.pc = "seq"
  /\ \E f \in 1..Len(run.items) :
       /\ ItemStale(run.items[f])
       /\ Extracted(run.items[f]).result.depth_in_color.kind = "nan"
  /\ \E f \in 1..Len(run.items) :
       /\ ~ItemStale(run.items[f])
       /\ run.items[f][5].some
       /\ Extracted(run.items[f]).result.depth_in_color.kind = "none"

\* The datasets add_stereo_depth creates, and the file each is created in:
\* generate_keypoints_3d_dset and generate_keypoints_depth_dset are given
\* hdf5_out (lines 524-528), generate_depth_in_color_dset hdf5_in (line 530).
OutputDatasets == {"3d-realsense-raw", "depth", "depth_map"}
FileOf(name) == IF name = "depth_map" THEN "hdf5_in" ELSE "hdf5_out"
Dataset(name) ==
  IF name = "depth_map" THEN depth_map
  ELSE IF name = "depth" THEN kpdepth
  ELSE kp3d
\* The datasets of `file` that add_stereo_depth created.
CreatedIn(file) ==
  {name \in OutputDatasets : FileOf(name) = file /\ Dataset(name).exists}

\* C12: add_stereo_depth creates no dataset in hdf5_in and sets no
\* attribute there: everything it creates is in hdf5_out.
C12_WritesOnlyOut ==
  /\ CreatedIn("hdf5_in") = {}
  /\ \A name \in OutputDatasets :
       Dataset(name).complete # "unset" => FileOf(name) = "hdf5_out"

\* A step that is a call of add_stereo_depth.
IsCallStep == run.pc = "idle" /\ run'.count # run.count

\* The call takes the early exit of line 535.
CallExitsEarly == hdf5_in.matched \in {"absent", "empty"} \/ NumFrames = 0

\* C13: no step of a run writes the datasets the run reads (colour and depth
\* images and times, 2D keypoints, matched depth index); the three output
\* datasets are created only when absent: a call that finds one keeps it and
\* its contents, which only the early exit's fill and the per-frame writes
\* change.
C13_InputsReadOnlyOutputsCreatedIfAbsent ==
  [][/\ hdf5_in' = hdf5_in
     /\ \A name \in OutputDatasets : Dataset(name).exists => Dataset(name)'.exists
     /\ IsCallStep =>
          /\ kp3d.exists =>
               kp3d'.data = IF CallExitsEarly THEN Filled(NaNRows(3)) ELSE kp3d.data
          /\ kpdepth.exists =>
               kpdepth'.data = IF CallExitsEarly THEN Filled(NaNRows(2))
                               ELSE kpdepth.data
          /\ depth_map.exists =>
               depth_map'.data = IF CallExitsEarly THEN Filled(NaNMap)
                                 ELSE depth_map.data]_vars

\* A second call found the datasets of a first one, per-frame results in
\* them, and kept them.
C13_Witness ==
  /\ run.count >= 2
  /\ hist.outcome = "running"
  /\ hist.at_start_3d # <<>>
  /\ hist.at_start_3d # Filled(ZeroRows(3))
  /\ kp3d.data = hist.at_start_3d
  /\ kpdepth.data = hist.at_start_depth
  /\ depth_map.data = hist.at_start_map

\* The shape of a keypoint dataset's contents: (frames, keypoints, width).
HasShape(data, frames, width) ==
  /\ DOMAIN data = 0..(frames - 1)
  /\ \A i \in DOMAIN data :
       /\ DOMAIN data[i] = 1..NumKeypoints
       /\ \A k \in DOMAIN data[i] : DOMAIN data[i][k] = 1..width

\* C14: whenever they exist, the 3D-keypoint dataset has shape
\* (num_frames, keypoints, 3) and the depth-frame-keypoint dataset
\* (num_frames, keypoints, 2), num_frames the length of the 2D keypoint
\* dataset, also in runs that found them; no step leaves either with fewer
\* frames.
C14_OutputShapes ==
  /\ [](/\ kp3d.exists => HasShape(kp3d.data, NumFrames, 3)
        /\ kpdepth.exists => HasShape(kpdepth.data, NumFrames, 2))
  /\ [][/\ Cardinality(DOMAIN kp3d'.data) >= Cardinality(DOMAIN kp3d.data)
        /\ Cardinality(DOMAIN kpdepth'.data) >= Cardinality(DOMAIN kpdepth.data)]_vars

\* A later run over datasets an earlier run created has written results of
\* both kinds, NaN for a rejected frame among them.
C14_Witness ==
  /\ run.count >= 2
  /\ hist.outcome = "returned"
  /\ hist.at_start_3d # <<>>
  /\ \E i \in FrameIdx : hist.writes_3d[i] > 0 /\ kp3d.data[i] = NaNRows(3)
  /\ \E i \in FrameIdx : hist.writes_depth[i] > 0 /\ kpdepth.data[i] # NaNRows(2)
  /\ HasShape(kp3d.data, NumFrames, 3)
  /\ HasShape(kpdepth.data, NumFrames, 2)

\* ------------------------------------------- get_extinsics, called directly
\* Key strings of calibration tables: "0", "10", "20" and "010".
TableKeys == {<<0>>, <<1, 0>>, <<2, 0>>, <<0, 1, 0>>}

\* The tables (a dict has each key once): the entry at position p carries
\* the translation (p, 0, 1) metres.
ExtrinsicTables ==
  {Tab([p \in 1..Len(ks) |->
          [key |-> ks[p], rotation |-> Eye3, translation |-> <<p, 0, 1>>]]) :
     ks \in {ks \in UNION {[1..l -> TableKeys] : l \in 0..MaxTableLen} :
              \A p, q \in DOMAIN ks : p # q => ks[p] # ks[q]}}

InitExtrinsics ==
  /\ \E n \in 0..MaxFrames, a \in SUBSET ExtrinsicAttrs,
        transforms \in {None} \cup {Some(t) : t \in ExtrinsicTables} :
       xcall = [phase |-> "args", h5 |-> [n |-> n, attrs |-> a],
                transforms |-> transforms, ret |-> DriverOff]
  /\ fc = DriverOff
  /\ hdf5_in = DriverOff
  /\ depth_map = DriverOff
  /\ kp3d = DriverOff
  /\ kpdepth = DriverOff
  /\ run = DriverOff
  /\ hist = DriverOff

\* get_extinsics(hdf5_in, color_dset_name, color_time_dset_name, transforms).
GetExtrinsicsCall ==
  /\ xcall.phase = "args"
  /\ \E ret \in {get_extinsics(xcall.h5, xcall.transforms)} :
       xcall' = [xcall EXCEPT !.phase = "returned", !.ret = ret]
  /\ UNCHANGED <<fc, hdf5_in, depth_map, kp3d, kpdepth, run, hist>>

NextExtrinsics == GetExtrinsicsCall

SpecExtrinsics == InitExtrinsics /\ [][NextExtrinsics]_vars

\* Twice |float(key) - time_target| for the key at position p of the call's
\* table, the target the middle of the colour times.
CallKeyDistance(p) ==
  Abs(2 * PyFloat(xcall.transforms.v[p].key)
        - (ColorTime(0) + ColorTime(xcall.h5.n - 1)))

\* The call returned the entry at position p, in millimetres.
ReturnedEntry(p) ==
  /\ xcall.ret.r_cd = xcall.transforms.v[p].rotation
  /\ xcall.ret.t_cd = <<1000 * xcall.transforms.v[p].translation[1],
                        1000 * xcall.transforms.v[p].translation[2],
                        1000 * xcall.transforms.v[p].translation[3]>>

\* C15: with both attributes on the colour dataset get_extinsics returns
\* the sensor-reported rotation and translation; otherwise what it returns
\* is the table entry whose key is nearest to the target time, the first in
\* table order among equally near ones.
C15_AttributesElseNearestFirst ==
  xcall.phase = "returned" =>
    IF ExtrinsicAttrs \subseteq xcall.h5.attrs
    THEN /\ ~xcall.ret.raised
         /\ xcall.ret.r_cd = AttrRotation
         /\ xcall.ret.t_cd = <<1000 * AttrTranslation[1],
                               1000 * AttrTranslation[2],
                               1000 * AttrTranslation[3]>>
    ELSE ~xcall.ret.raised =>
           \E p \in DOMAIN xcall.transforms.v :
             /\ ReturnedEntry(p)
             /\ \A q \in DOMAIN xcall.transforms.v :
                  /\ CallKeyDistance(p) <= CallKeyDistance(q)
                  /\ q < p => CallKeyDistance(q) > CallKeyDistance(p)

\* One attribute only, and two keys equally near of which the first, not at
\* the head of the table, was returned.
C15_Witness ==
  /\ xcall.phase = "returned"
  /\ Cardinality(xcall.h5.attrs) = 1
  /\ ~xcall.ret.raised
  /\ \E p, q \in DOMAIN xcall.transforms.v :
       /\ 1 < p
       /\ p < q
       /\ CallKeyDistance(p) = CallKeyDistance(q)
       /\ CallKeyDistance(1) > CallKeyDistance(p)
       /\ ReturnedEntry(p)

\* C16: when add_stereo_depth raises because the extrinsic attributes are
\* missing and no calibration table is given, no output dataset has been
\* created or written and no frame has been processed.
C16_ConfigErrorBeforeOutput ==
  (hist.outcome = "raised" /\ hist.raised_in = "get_extinsics") =>
    /\ kp3d.data = hist.at_start_3d
    /\ kpdepth.data = hist.at_start_depth
    /\ depth_map.data = hist.at_start_map
    /\ kp3d.exists = (hist.at_start_3d # <<>>)
    /\ hist.extracted = {}

\* The step sets the dense map's 'complete' attribute to true: line 539 or
\* line 597.
SetsComplete ==
  /\ depth_map'.complete = "true"
  /\ \/ depth_map.complete # "true"
     \/ IsCallStep /\ hist'.outcome = "returned"
     \/ run.pc = "chunk" /\ run'.pc = "idle" /\ hist'.outcome = "returned"

\* C17: a run that computes the dense map (no complete cache, or rerun) sets
\* 'complete' to true only once the map slot of every frame 0..N-1 has been
\* written in that run.
C17_CompleteAfterEveryFrame ==
  [][(SetsComplete /\ ~run'.filled) =>
       \A i \in 0..(hdf5_in.n - 1) :
         hist'.filled_all \/ hist'.writes_map[i] >= 1]_vars

\* A rerun over a complete cache has recomputed both chunks of a recording
\* and marked the map complete.
C17_Witness ==
  /\ hist.outcome = "returned"
  /\ hist.start_complete
  /\ run.rerun
  /\ ~run.filled
  /\ hdf5_in.n > DATA_PROCESSING_CHUNK_SIZE
  /\ depth_map.complete = "true"
  /\ \A i \in 0..(hdf5_in.n - 1) : hist.writes_map[i] >= 1

\* The chunks the run has entered so far.
ChunksEntered ==
  IF run.items = <<>> THEN run.start \div DATA_PROCESSING_CHUNK_SIZE
  ELSE run.start \div DATA_PROCESSING_CHUNK_SIZE + 1

\* C18: a chunk gets a worker pool iff the cached dense maps are not used
\* (no complete cache, or rerun); with a complete cache and no rerun every
\* frame is extracted in the driver's own loop, from work items that carry
\* the cached map and no depth image.
C18_PoolIffNotCached ==
  hist.outcome = "running" =>
    /\ run.filled = (hist.start_complete /\ ~run.rerun)
    /\ run.pc \in {"seq", "pool"} => run.pc = (IF run.filled THEN "seq" ELSE "pool")
    /\ hist.pools = (IF run.filled THEN 0 ELSE ChunksEntered)
    /\ run.filled =>
         \A f \in 1..Len(run.items) :
           /\ ~run.items[f][1].some
           /\ run.items[f][5] = Some(depth_map.data[run.items[f][6]])

\* A cached run is in the second chunk of its sequential loop, and has
\* extracted every frame of the first without a pool.
C18_Witness ==
  /\ hist.outcome = "running"
  /\ run.filled
  /\ run.pc = "seq"
  /\ run.start = DATA_PROCESSING_CHUNK_SIZE
  /\ hist.pools = 0
  /\ hist.extracted = 0..(DATA_PROCESSING_CHUNK_SIZE - 1)

\* A step in which a pool worker hands over the results of a task.
IsWorkerStep ==
  run.pc = "pool" /\ run'.pc = "pool" /\ run'.pending # run.pending

\* A step in which the driver takes a result off the pool's iterator.
IsDriverPoolStep ==
  run.pc = "pool" /\ run'.pc = "pool" /\ Len(run'.outq) = Len(run.outq) - 1

\* C19: no step of a worker changes any of the three datasets; while a pool
\* runs they change only in a step of the driver, which writes the slot of
\* the result a worker returned, one result per step.
C19_SingleWriter ==
  [][/\ IsWorkerStep => UNCHANGED <<kp3d, kpdepth, depth_map>>
     /\ (run.pc = "pool" /\ <<kp3d, kpdepth, depth_map>>' # <<kp3d, kpdepth, depth_map>>)
          => /\ IsDriverPoolStep
             /\ Head(run.outq).idx \in hist.extracted
             /\ \A i \in 0..(hdf5_in.n - 1) : i # Head(run.outq).idx =>
                  /\ kp3d'.data[i] = kp3d.data[i]
                  /\ kpdepth'.data[i] = kpdepth.data[i]
                  /\ depth_map'.data[i] = depth_map.data[i]]_vars

\* Results of several workers wait for the driver, which has written one
\* result while a task is still running.
C19_Witness ==
  /\ run.pc = "pool"
  /\ Len(run.outq) >= 2
  /\ run.pending # {}
  /\ \E i \in 0..(hdf5_in.n - 1) : hist.writes_3d[i] >= 1

\* The pool's iterator holds the exception of a worker invocation that
\* failed.
WorkerFailurePending ==
  run.pc = "pool" /\ \E j \in DOMAIN run.outq : run.outq[j].raised

\* C20: once a worker invocation has failed, the run can only go on taking
\* the results that precede the failure and then raise in the driver: no
\* task is run again, no later chunk is entered and the run leaves the
\* dense map's 'complete' attribute as it found it.
C20_WorkerFailureIsFatal ==
  [][WorkerFailurePending =>
       /\ depth_map'.complete = (IF hist.start_complete THEN "true" ELSE "false")
       /\ run'.start = run.start
       /\ \/ /\ run'.pc = "pool"
             /\ WorkerFailurePending'
             /\ run'.pending \subseteq run.pending
             /\ hist'.pools = hist.pools
          \/ /\ run'.pc = "idle"
             /\ hist'.outcome = "raised"
             /\ UNCHANGED <<kp3d, kpdepth, depth_map>>]_vars

\* A worker failed in the first of two chunks: the driver raised after it
\* had written another frame's result, and no frame of the second chunk was
\* extracted.
C20_Witness ==
  /\ hist.outcome = "raised"
  /\ hist.raised_in = "imap_unordered"
  /\ hdf5_in.n > DATA_PROCESSING_CHUNK_SIZE
  /\ run.start = 0
  /\ \E i \in 0..(hdf5_in.n - 1) : hist.writes_map[i] >= 1
  /\ hist.extracted \subseteq 0..(DATA_PROCESSING_CHUNK_SIZE - 1)
  /\ depth_map.complete = "false"

\* ----------------------------- project_depth_to_colorframe, called directly
\* Projected points (x, y, z), not yet divided by z: z = 0, pixels of row 0
\* and of column 0, inner pixels, halves that round to even, and pixels left
\* of, above, right of and below the image.
RasterRays ==
  {<<0, 0, 0>>, <<1, 1, 0>>, <<0, 0, 1>>, <<0, 1, 1>>, <<1, 0, 2>>, <<1, 1, 1>>,
   <<2, 2, 2>>, <<3, 3, 2>>, <<2, 1, 1>>, <<-1, 1, 1>>, <<1, -1, 1>>,
   <<4, 1, 1>>, <<1, 3, 1>>}

RasterShapes == {<<2, 3>>, <<3, 4>>}

\* The other variables of a specification of direct calls.
NoDriver ==
  /\ fc = DriverOff
  /\ hdf5_in = DriverOff
  /\ depth_map = DriverOff
  /\ kp3d = DriverOff
  /\ kpdepth = DriverOff
  /\ run = DriverOff
  /\ hist = DriverOff

InitRaster ==
  /\ \E px_color \in UNION {[0..(l - 1) -> RasterRays] : l \in 1..MaxPoints},
        color_img_shape \in RasterShapes :
       xcall = [phase |-> "args", px_color |-> px_color,
                color_img_shape |-> color_img_shape, ret |-> DriverOff]
  /\ NoDriver

\* project_depth_to_colorframe(px_color, color_img_shape).
ProjectDepthToColorframeCall ==
  /\ xcall.phase = "args"
  /\ \E ret \in {project_depth_to_colorframe(xcall.px_color,
                                             xcall.color_img_shape)} :
       xcall' = [xcall EXCEPT !.phase = "returned", !.ret = ret]
  /\ UNCHANGED <<fc, hdf5_in, depth_map, kp3d, kpdepth, run, hist>>

NextRaster == ProjectDepthToColorframeCall

SpecRaster == InitRaster /\ [][NextRaster]_vars

\* The rounded (x, y) of a point with z # 0.
RoundedXY(ray) ==
  <<RoundHalfEven(Frac(ray[1], ray[3])[1], Frac(ray[1], ray[3])[2]),
    RoundHalfEven(Frac(ray[2], ray[3])[1], Frac(ray[2], ray[3])[2])>>

\* The points the reference rasterizer keeps at pixel (row r, column c).
KeptAt(px_color, r, c) ==
  {p \in DOMAIN px_color :
     px_color[p][3] # 0 /\ RoundedXY(px_color[p]) = <<c, r>>}

\* The reference rasterizer: the z of the last kept point at each pixel, 0
\* where there is none.
ReferenceRaster(px_color, shape) ==
  [r \in 0..(shape[1] - 1) |-> [c \in 0..(shape[2] - 1) |->
     IF KeptAt(px_color, r, c) = {} THEN F(0)
     ELSE F(px_color[MaxOf(KeptAt(px_color, r, c))][3])]]

\* C21: project_depth_to_colorframe returns the image of the reference
\* rasterizer: points with z = 0 or a rounded pixel outside
\* [0, width) x [0, height) are dropped, every other point writes its z at
\* (row y, column x), the last one winning, and the other pixels are 0.
C21_EqualsReferenceRaster ==
  xcall.phase = "returned" =>
    /\ ~xcall.ret.err
    /\ xcall.ret.img = ReferenceRaster(xcall.px_color, xcall.color_img_shape)

\* ---------------------------- calc_depth_from_sparse_image, called directly
\* Sparse maps of the colour frame's shape: zeros but for a 1000 at pixel q1
\* and, when q2 is another pixel, a 2000 there.
SparsePixels ==
  {<<r, c>> : r \in 0..(ColorShape[1] - 1), c \in 0..(ColorShape[2] - 1)}

SparseImages ==
  {[r \in 0..(ColorShape[1] - 1) |-> [c \in 0..(ColorShape[2] - 1) |->
      IF <<r, c>> = q1 THEN F(1000)
      ELSE IF <<r, c>> = q2 THEN F(2000) ELSE F(0)]] :
     q1 \in SparsePixels, q2 \in SparsePixels}

InitSample ==
  /\ \E img \in SparseImages, pose \in SparsePixels, window \in 0..MaxWindow :
       xcall = [phase |-> "args", mapped_depth_img |-> img,
                poses |-> <<<<pose[2], pose[1]>>>>, window |-> window,
                ret |-> DriverOff]
  /\ NoDriver

\* calc_depth_from_sparse_image(mapped_depth_img, poses, window).
CalcDepthFromSparseImageCall ==
  /\ xcall.phase = "args"
  /\ \E ret \in {calc_depth_from_sparse_image(xcall.mapped_depth_img,
                                              xcall.poses, xcall.window)} :
       xcall' = [xcall EXCEPT !.phase = "returned", !.ret = ret]
  /\ UNCHANGED <<fc, hdf5_in, depth_map, kp3d, kpdepth, run, hist>>

NextSample == CalcDepthFromSparseImageCall

SpecSample == InitSample /\ [][NextSample]_vars

\* The non-zero values of img in rows y-w..y+w and columns x-w..x+w, both
\* inclusive, that lie inside the image.
NeighbourhoodValues(img, x, y, w) ==
  {img[r][c] : r \in {r \in DOMAIN img : y - w <= r /\ r <= y + w},
               c \in {c \in DOMAIN img[0] : x - w <= c /\ c <= x + w}} \ {F(0)}

\* C22: for every keypoint, calc_depth_from_sparse_image returns the
\* minimum of the non-zero values of the (2w+1) x (2w+1) neighbourhood
\* centred on the keypoint's pixel, clipped to the image, or 0 when there is
\* none.
C22_MinOfCentredWindow ==
  xcall.phase = "returned" =>
    \A k \in DOMAIN xcall.poses :
      xcall.ret[k] =
        IF NeighbourhoodValues(xcall.mapped_depth_img, xcall.poses[k][1],
                               xcall.poses[k][2], xcall.window) = {}
        THEN F(0)
        ELSE CHOOSE v \in NeighbourhoodValues(xcall.mapped_depth_img,
                        xcall.poses[k][1], xcall.poses[k][2], xcall.window) :
               \A u \in NeighbourhoodValues(xcall.mapped_depth_img,
                        xcall.poses[k][1], xcall.poses[k][2], xcall.window) :
                 ~FLt(u, v)

\* ----------- generate_image_h_indices and de_project_depth, called directly
\* Depth images of shape (H, W) whose pixels all differ: img[y][x] is
\* m * (W * y + x + 1).
IndexedImages ==
  {[y \in 0..(h - 1) |-> [x \in 0..(w - 1) |-> m * (w * y + x + 1)]] :
     h \in 1..MaxSide, w \in 1..MaxSide, m \in 1..5}

InitIndices ==
  /\ \E img \in IndexedImages :
       xcall = [phase |-> "args", img |-> img, indices_h |-> DriverOff,
                world_d |-> DriverOff]
  /\ NoDriver

\* Line 193: generate_image_h_indices(depth_img.shape).
GenerateImageHIndicesCall ==
  /\ xcall.phase = "args"
  /\ \E ret \in {generate_image_h_indices(ImgShape(xcall.img))} :
       xcall' = [xcall EXCEPT !.phase = "indices", !.indices_h = ret]
  /\ UNCHANGED <<fc, hdf5_in, depth_map, kp3d, kpdepth, run, hist>>

\* Line 194: de_project_depth(indices_h, k_d_inv, depth_img), the intrinsics
\* the identity.
DeProjectDepthCall ==
  /\ xcall.phase = "indices"
  /\ \E ret \in {de_project_depth(xcall.indices_h, Inv3(K_D), xcall.img)} :
       xcall' = [xcall EXCEPT !.phase = "deprojected", !.world_d = ret]
  /\ UNCHANGED <<fc, hdf5_in, depth_map, kp3d, kpdepth, run, hist>>

NextIndices == GenerateImageHIndicesCall \/ DeProjectDepthCall

SpecIndices == InitIndices /\ [][NextIndices]_vars

\* The pixels (x, y) of the call's image.
CallPixels ==
  {<<x, y>> : x \in 0..(ImgW(xcall.img) - 1), y \in 0..(ImgH(xcall.img) - 1)}

\* C23: the columns of generate_image_h_indices((H, W)) are (x, y, 1) for
\* each of the H*W pixels exactly once, and de_project_depth multiplies column
\* p by img[y, x] of that same pixel.
C23_RayMeetsOwnDepth ==
  /\ xcall.phase \in {"indices", "deprojected"} =>
       /\ Cardinality(DOMAIN xcall.indices_h) = Cardinality(CallPixels)
       /\ \A q \in CallPixels :
            \E p \in DOMAIN xcall.indices_h :
              xcall.indices_h[p] = <<q[1], q[2], 1>>
  /\ xcall.phase = "deprojected" =>
       \A p \in DOMAIN xcall.world_d :
         xcall.world_d[p] =
           <<xcall.indices_h[p][1] * xcall.img[xcall.indices_h[p][2]][xcall.indices_h[p][1]],
             xcall.indices_h[p][2] * xcall.img[xcall.indices_h[p][2]][xcall.indices_h[p][1]],
             xcall.img[xcall.indices_h[p][2]][xcall.indices_h[p][1]]>>

\* A de-projected image that is not square and has several rows and columns.
C23_Witness ==
  /\ xcall.phase = "deprojected"
  /\ ImgH(xcall.img) > 1
  /\ ImgW(xcall.img) > ImgH(xcall.img)
  /\ \E p \in DOMAIN xcall.world_d : xcall.world_d[p][1] > 0 /\ xcall.world_d[p][2] > 0

\* ------------------------------------ build_tranformations, called directly
\* The rotations with integer entries: axis permutations with signs.
SignedPermutations ==
  {[i \in 1..3 |-> [j \in 1..3 |-> IF j = perm[i] THEN sign[i] ELSE 0]] :
     perm \in {f \in [1..3 -> 1..3] : \A a, b \in 1..3 : a # b => f[a] # f[b]},
     sign \in [1..3 -> {-1, 1}]}

Translations == [1..3 -> (-MaxCoord)..MaxCoord]

\* 3D points to carry through the transform and back.
ProbePoints == {<<0, 0, 0>>, <<1, 2, 3>>, <<-2, 0, MaxCoord>>}

InitTransform ==
  /\ \E r_cd \in SignedPermutations, t_cd \in Translations,
        point \in ProbePoints :
       xcall = [phase |-> "args", r_cd |-> r_cd, t_cd |-> t_cd,
                point |-> point, ret |-> DriverOff, there |-> DriverOff,
                back |-> DriverOff]
  /\ NoDriver

\* build_tranformations(r_cd, t_cd, k_d, k_c).
BuildTransformationsCall ==
  /\ xcall.phase = "args"
  /\ \E ret \in {build_tranformations(xcall.r_cd, xcall.t_cd, K_D, K_C)} :
       xcall' = [xcall EXCEPT !.phase = "built", !.ret = ret]
  /\ UNCHANGED <<fc, hdf5_in, depth_map, kp3d, kpdepth, run, hist>>

\* m @ v for a 4x4 matrix and a homogeneous point.
MatVec4(m, v) == <<Dot4(m[1], v), Dot4(m[2], v), Dot4(m[3], v), Dot4(m[4], v)>>

\* transform_mats['h_matrix'] @ [point; 1].
ApplyHMatrix ==
  /\ xcall.phase = "built"
  /\ xcall' = [xcall EXCEPT !.phase = "there",
                 !.there = MatVec4(xcall.ret.h_matrix,
                                   xcall.point \o <<1>>)]
  /\ UNCHANGED <<fc, hdf5_in, depth_map, kp3d, kpdepth, run, hist>>

\* transform_mats['h_matrix_inv'] @ the transformed point.
ApplyHMatrixInv ==
  /\ xcall.phase = "there"
  /\ xcall' = [xcall EXCEPT !.phase = "back",
                 !.back = MatVec4(xcall.ret.h_matrix_inv, xcall.there)]
  /\ UNCHANGED <<fc, hdf5_in, depth_map, kp3d, kpdepth, run, hist>>

NextTransform == BuildTransformationsCall \/ ApplyHMatrix \/ ApplyHMatrixInv

SpecTransform == InitTransform /\ [][NextTransform]_vars

\* C24: a homogeneous 3D point taken through h_matrix and then through
\* h_matrix_inv of the same build_tranformations call is the point it was.
C24_InverseRoundTrip ==
  xcall.phase = "back" => xcall.back = xcall.point \o <<1>>

\* A point came back through a transform that turns the axes and shifts
\* along all three.
C24_Witness ==
  /\ xcall.phase = "back"
  /\ xcall.r_cd # Eye3
  /\ xcall.r_cd # Transpose3(xcall.r_cd)
  /\ \A i \in 1..3 : xcall.t_cd[i] # 0
  /\ xcall.there # xcall.point \o <<1>>
  /\ xcall.back = xcall.point \o <<1>>

\* C25: on a recording of one frame or more, with a matched depth index for
\* every frame and the calibration available in the file, no run of
\* add_stereo_depth ends by an exception, and a run that has returned has
\* written every frame and left the dense map's 'complete' attribute true.
C25_RunsToCompletion ==
  (hdf5_in.n >= 1 /\ hdf5_in.matched = "full"
     /\ ExtrinsicAttrs \subseteq hdf5_in.attrs) =>
    /\ hist.outcome # "raised"
    /\ hist.outcome = "returned" =>
         /\ depth_map.complete = "true"
         /\ \A i \in 0..(hdf5_in.n - 1) : hist.writes_3d[i] >= 1

\* The frame indices of the chunk that starts at frame `start`.
ChunkFrames(start) ==
  {i \in 0..(hdf5_in.n - 1) :
     start <= i /\ i < start + DATA_PROCESSING_CHUNK_SIZE}

\* C26: in a run past the early exit the chunks start at multiples of the
\* chunk size and each holds exactly the work items of its own frames, in
\* order, so that they are contiguous, disjoint and cover 0..N-1; no frame
\* is written twice to either keypoint dataset, every frame of a chunk left
\* behind has been written once to both, and so has every frame when the
\* run has returned.
C26_ChunksPartitionFrames ==
  (hist.outcome \in {"running", "returned"} /\ ~hist.filled_all) =>
    /\ run.start % DATA_PROCESSING_CHUNK_SIZE = 0
    /\ run.items # <<>> =>
         /\ Len(run.items) = Cardinality(ChunkFrames(run.start))
         /\ \A f \in 1..Len(run.items) : run.items[f][6] = run.start + f - 1
    /\ \A i \in 0..(hdf5_in.n - 1) :
         /\ hist.writes_3d[i] <= 1
         /\ hist.writes_depth[i] = hist.writes_3d[i]
         /\ (i < run.start \/ hist.outcome = "returned") => hist.writes_3d[i] = 1
         /\ hist.writes_3d[i] = 1 =>
              i < run.start + Cardinality(ChunkFrames(run.start))

\* A run over a recording whose length is not a multiple of the chunk size
\* has returned, every frame written once.
C26_Witness ==
  /\ hist.outcome = "returned"
  /\ ~hist.filled_all
  /\ hdf5_in.n % DATA_PROCESSING_CHUNK_SIZE # 0
  /\ hdf5_in.n > DATA_PROCESSING_CHUNK_SIZE
  /\ \A i \in 0..(hdf5_in.n - 1) :
       hist.writes_3d[i] = 1 /\ hist.writes_depth[i] = 1

\* The depth sampled for keypoint k in call r lies in the valid range.
SampledValid(r, k) ==
  /\ ~FLt(r.depths[k], F(MIN_VALID_DEPTH_MM))
  /\ ~FGt(r.depths[k], F(MAX_VALID_DEPTH_MM))

\* C27: in a call that went through the geometry, a keypoint whose sampling
\* window held no non-zero value (sampled depth 0) is not-a-number in the 3D
\* and in the depth-frame output, and a keypoint of the same frame with a
\* valid sampled depth keeps its 3D point (its pixel ray times the depth,
\* the colour intrinsics being the identity) and a depth-frame pixel.
C27_EmptyWindowIsNaN ==
  \A r \in FrameCalls :
    (~r.raised /\ r.geom # {}) =>
      \A k \in DOMAIN fc.keypoints :
        /\ r.depths[k] = F(0) =>
             /\ r.poses_3d.data[k] = <<NaN, NaN, NaN>>
             /\ r.poses_depth.data[k] = <<NaN, NaN>>
        /\ SampledValid(r, k) =>
             /\ r.poses_3d.data[k] =
                  <<FMul(F(fc.keypoints[k][1]), r.depths[k]),
                    FMul(F(fc.keypoints[k][2]), r.depths[k]), r.depths[k]>>
             /\ r.poses_depth.data[k][1] # NaN
             /\ r.poses_depth.data[k][2] # NaN

\* One keypoint of a frame got no depth and is not-a-number, another got a
\* valid depth and kept its point.
C27_Witness ==
  /\ fc.phase = "fresh"
  /\ ~fc.fresh.raised
  /\ fc.fresh.geom # {}
  /\ MIN_VALID_DEPTH_MM > 0
  /\ \E k, j \in DOMAIN fc.keypoints :
       /\ fc.fresh.depths[k] = F(0)
       /\ fc.fresh.poses_3d.data[k] = <<NaN, NaN, NaN>>
       /\ fc.fresh.poses_depth.data[k] = <<NaN, NaN>>
       /\ SampledValid(fc.fresh, j)
       /\ fc.fresh.poses_3d.data[j][3] = fc.fresh.depths[j]

\* Frame idx of the recording is stale: its matched depth time is further
\* than MAX_TIME_DISPARITY from its colour time.
RecordedStale(idx) ==
  Abs(DepthTime(MatchedIndex(idx)) - ColorTime(idx)) > MAX_TIME_DISPARITY

\* C28: in a run that uses the cached dense maps, the slot of a stale frame
\* is the not-a-number fill the computing run left there, and the frame is
\* rejected again: its extraction calls no geometry function, so the fill
\* is never sampled, and both its outputs are not-a-number.
C28_StaleSlotNeverSampled ==
  (hist.outcome = "running" /\ run.filled /\ run.pc = "seq") =>
    \A f \in 1..Len(run.items) :
      RecordedStale(run.start + f - 1) =>
        /\ depth_map.data[run.start + f - 1] = NaNMap
        /\ \E e \in {Extracted(run.items[f])} :
             /\ ~e.result.raised
             /\ e.geom = {}
             /\ SlotOf(e.result.poses_3d, 3) = NaNRows(3)
             /\ SlotOf(e.result.poses_depth, 2) = NaNRows(2)

\* A cached run has gone past a stale frame and written not-a-number for it
\* over a slot that is still the fill.
C28_Witness ==
  /\ hist.outcome = "running"
  /\ run.filled
  /\ run.pc = "seq"
  /\ \E f \in 1..Len(run.items) :
       /\ f < run.next
       /\ RecordedStale(run.start + f - 1)
       /\ hist.writes_3d[run.start + f - 1] = 1
       /\ kp3d.data[run.start + f - 1] = NaNRows(3)
       /\ kpdepth.data[run.start + f - 1] = NaNRows(2)
       /\ depth_map.data[run.start + f - 1] = NaNMap

\* ------------------------------------------------- process_hdf5.convert
\* Python values that reach add_stereo_depth's parameters.
PyNone == [kind |-> "None", v |-> <<>>]
PyStr(x) == [kind |-> "str", v |-> x]
PyBool(b) == [kind |-> "bool", v |-> b]
PyFile(name) == [kind |-> "h5py.File", v |-> name]
\* transforms[source][cam] of the loaded file.
PyTable(source, cam) == [kind |-> "table", v |-> <<source, cam>>]

\* The choices of the --source and --cam arguments (lines 112-115).
Sources == {"podium", "robot", "mixed"}
Cams == {"lower", "upper"}

\* def add_stereo_depth(hdf5_in, hdf5_out, cam_root, pose_dset_root,
\*                      rerun=False, transforms=None)
AddStereoDepthParams ==
  <<"hdf5_in", "hdf5_out", "cam_root", "pose_dset_root", "rerun", "transforms">>

AddStereoDepthDefaults ==
  [name \in {"rerun", "transforms"} |->
     IF name = "rerun" THEN PyBool(FALSE) ELSE PyNone]

\* Python's binding of positional arguments to the parameters, in order,
\* the parameters left over taking their defaults.
BindPositional(params, defaults, args) ==
  [name \in {params[i] : i \in DOMAIN params} |->
     The({IF i <= Len(args) THEN args[i] ELSE defaults[name] :
          i \in {i \in DOMAIN params : params[i] = name}})]

\* A transforms file: whether it can be opened, and the (source, cam) pairs
\* it has a table for.
InitConvert ==
  /\ \E opens \in BOOLEAN, pairs \in SUBSET (Sources \X Cams),
        source \in Sources, cam \in Cams :
       xcall = [phase |-> "args", opens |-> opens, pairs |-> pairs,
                source |-> source, cam |-> cam, transforms |-> PyNone,
                bound |-> DriverOff]
  /\ NoDriver

\* Lines 54-60: transforms stays None when the file cannot be opened.
ConvertLoadsTransforms ==
  /\ xcall.phase = "args"
  /\ xcall' = [xcall EXCEPT
                 !.phase = "loaded",
                 !.transforms = IF xcall.opens
                                THEN [kind |-> "dict", v |-> xcall.pairs]
                                ELSE PyNone]
  /\ UNCHANGED <<fc, hdf5_in, depth_map, kp3d, kpdepth, run, hist>>

\* Lines 93-94: `source in transforms` raises TypeError on None.
SelectedTable(transforms, source, cam) ==
  IF transforms.kind = "None" THEN [raised |-> TRUE, value |-> PyNone]
  ELSE IF <<source, cam>> \in transforms.v
  THEN [raised |-> FALSE, value |-> PyTable(source, cam)]
  ELSE [raised |-> FALSE, value |-> PyNone]

\* Lines 62 and 91-94: add_stereo_depth(hdf5_in, hdf5_out, dset, <table>).
ConvertCallsAddStereoDepth ==
  /\ xcall.phase = "loaded"
  /\ \E sel \in {SelectedTable(xcall.transforms, xcall.source, xcall.cam)} :
       IF sel.raised
       THEN xcall' = [xcall EXCEPT !.phase = "raised"]
       ELSE xcall' = [xcall EXCEPT
                        !.phase = "called",
                        !.bound = BindPositional(AddStereoDepthParams,
                                    AddStereoDepthDefaults,
                                    <<PyFile("hdf5_in"), PyFile("hdf5_out"),
                                      PyStr(<<"/vid/color/", xcall.cam, "/data">>),
                                      sel.value>>)]
  /\ UNCHANGED <<fc, hdf5_in, depth_map, kp3d, kpdepth, run, hist>>

NextConvert == ConvertLoadsTransforms \/ ConvertCallsAddStereoDepth

SpecConvert == InitConvert /\ [][NextConvert]_vars

\* C29: convert reaches add_stereo_depth also when the transforms file could
\* not be opened, and in the call the parameter transforms holds the table
\* of (source, cam) (None when there is none) and pose_dset_root a dataset
\* root.
C29_TableBoundToTransforms ==
  /\ xcall.phase # "raised"
  /\ xcall.phase = "called" =>
       /\ xcall.bound["transforms"] =
            IF xcall.opens /\ <<xcall.source, xcall.cam>> \in xcall.pairs
            THEN PyTable(xcall.source, xcall.cam) ELSE PyNone
       /\ xcall.bound["pose_dset_root"].kind = "str"

=============================================================================
